---------------------------- MODULE Spec2Model ----------------------------
(***************************************************************************)
(* The multilingual pipeline of claude-flow-multilang: language detection  *)
(* with its caches (src/src/i18n/language-manager.ts), the cultural        *)
(* context analyzer (src/src/cultural/context-analyzer.ts), the            *)
(* language_detect tool (src/src/cli/multilang-parser.ts) and the          *)
(* multi-language fan-out of the polyglot agent                            *)
(* (src/src/polyglot/polyglot-agent.ts).                                   *)
(*                                                                         *)
(* Strings are sequences of UTF-16 code units.  A confidence is an exact   *)
(* fraction [num, den] in lowest terms.  An absent value (undefined, null) *)
(* is the record None.                                                     *)
(***************************************************************************)
EXTENDS Integers, Sequences, FiniteSets, TLC

(***************************************************************************)
(* Bounds of the model.                                                    *)
(***************************************************************************)
\* Longest input text, in vocabulary words.
MaxWords == 2
\* Largest count passed to applyPluralization.
MaxCount == 120
\* Longest language list passed to generateMultilingualResponse.
MaxLangs == 3

None == [absent |-> TRUE]

\* SupportedLanguage, in declaration order (the key order of the tables).
Languages == <<"en", "ru", "zh-cn", "zh-tw", "ja", "ko", "de", "fr", "es", "pt",
               "tr", "th", "it", "hi">>

SupportedLanguage == {Languages[i] : i \in 1..Len(Languages)}

LangIndex(lang) == CHOOSE i \in 1..Len(Languages) : Languages[i] = lang

(***************************************************************************)
(* JavaScript string and regular-expression primitives.                    *)
(***************************************************************************)
Min(S) == CHOOSE x \in S : \A y \in S : x <= y

RECURSIVE Gcd(_, _)
Gcd(a, b) == IF b = 0 THEN a ELSE Gcd(b, a % b)

\* num/den in lowest terms; 0 is 0/1.
Frac(num, den) ==
  IF num = 0 THEN [num |-> 0, den |-> 1]
  ELSE LET g == Gcd(num, den) IN [num |-> num \div g, den |-> den \div g]

FracLess(a, b) == a.num * b.den < b.num * a.den

FracLeq(a, b) == a.num * b.den <= b.num * a.den

\* \w of a regex without the u flag: [A-Za-z0-9_].
IsWordChar(c) == c \in (48..57) \cup (65..90) \cup (97..122) \cup {95}

\* String.prototype.toLowerCase on one code unit: Basic Latin, Latin-1 and
\* Cyrillic capitals; every other unit of the modelled texts has no lower case.
toLowerCaseChar(c) ==
  CASE c \in 65..90 -> c + 32
    [] c \in (192..222) \ {215} -> c + 32
    [] c \in 1040..1071 -> c + 32
    [] c \in 1024..1039 -> c + 80
    [] OTHER -> c

toLowerCase(s) == [i \in 1..Len(s) |-> toLowerCaseChar(s[i])]

\* String.prototype.includes.
includes(s, k) ==
  \E i \in 0..(Len(s) - Len(k)) : \A j \in 1..Len(k) : s[i + j] = k[j]

\* keywords.some(keyword => s.includes(keyword))
someIncluded(s, keywords) == \E k \in 1..Len(keywords) : includes(s, keywords[k])

\* \b at offset p (between s[p] and s[p+1]): exactly one side is a word character.
AtBoundary(s, p) ==
  LET left == p >= 1 /\ IsWordChar(s[p])
      right == p < Len(s) /\ IsWordChar(s[p + 1])
  IN left # right

\* The literal lit matches at offset p under the i flag.
LiteralAt(s, p, lit) ==
  /\ p + Len(lit) <= Len(s)
  /\ \A j \in 1..Len(lit) : toLowerCaseChar(s[p + j]) = toLowerCaseChar(lit[j])

\* /\b(alts)\b/i at offset p: the index of the first alternative, in order, that
\* matches between two word boundaries; 0 when none does.
WordAltAt(s, p, alts) ==
  LET ok == {k \in 1..Len(alts) :
               /\ AtBoundary(s, p)
               /\ LiteralAt(s, p, alts[k])
               /\ AtBoundary(s, p + Len(alts[k]))}
  IN IF ok = {} THEN 0 ELSE Min(ok)

\* Number of matches of /\b(alts)\b/gi from offset p on: leftmost first, not overlapping.
RECURSIVE CountWordMatches(_, _, _)
CountWordMatches(s, p, alts) ==
  IF p >= Len(s) THEN 0
  ELSE LET k == WordAltAt(s, p, alts)
       IN IF k = 0 THEN CountWordMatches(s, p + 1, alts)
          ELSE 1 + CountWordMatches(s, p + Len(alts[k]), alts)

InRanges(c, ranges) == \E k \in 1..Len(ranges) : ranges[k][1] <= c /\ c <= ranges[k][2]

\* A character class; under the i flag a capital matches its lower-case member.
ClassMatch(c, pat) ==
  InRanges(c, pat.ranges) \/ (pat.ci /\ InRanges(toLowerCaseChar(c), pat.ranges))

\* text.match(pattern).length for a global pattern (0 when match() is null).
matchCount(text, pat) ==
  CASE pat.kind = "words" -> CountWordMatches(text, 0, pat.alts)
    [] pat.kind = "run" ->
         Cardinality({i \in 1..Len(text) :
           ClassMatch(text[i], pat) /\ (i = 1 \/ ~ClassMatch(text[i - 1], pat))})
    [] pat.kind = "char" ->
         Cardinality({i \in 1..Len(text) : ClassMatch(text[i], pat)})

RECURSIVE SumTo(_, _)
SumTo(f, n) == IF n = 0 THEN 0 ELSE f[n] + SumTo(f, n - 1)

(* Strings are sequences of UTF-16 code units, as in the JavaScript source. *)

\* LANGUAGE_PATTERNS: per language, the detection regexes in source order.
\*   words: /\b(a|b|...)\b/gi   run: /[ranges]+/g   char: /[ranges]/g (ci = the i flag)
LANGUAGE_PATTERNS(lang) ==
  CASE lang = "en" -> <<
       \* /\b(the|and|or|but|in|on|at|to|for)\b/gi
       [kind |-> "words", alts |-> <<<<116,104,101>>, <<97,110,100>>, <<111,114>>, <<98,117,116>>, <<105,110>>, <<111,110>>, <<97,116>>, <<116,111>>, <<102,111,114>>>>],
       \* /\b(is|are|was|were|been|being)\b/gi
       [kind |-> "words", alts |-> <<<<105,115>>, <<97,114,101>>, <<119,97,115>>, <<119,101,114,101>>, <<98,101,101,110>>, <<98,101,105,110,103>>>>]
     >>
    [] lang = "ru" -> <<
       \* /[а-яА-ЯёЁ]+/g
       [kind |-> "run", ranges |-> <<<<1072,1103>>, <<1040,1071>>, <<1105,1105>>, <<1025,1025>>>>, ci |-> FALSE],
       \* /\b(и|или|но|в|на|для|с|по)\b/gi
       [kind |-> "words", alts |-> <<<<1080>>, <<1080,1083,1080>>, <<1085,1086>>, <<1074>>, <<1085,1072>>, <<1076,1083,1103>>, <<1089>>, <<1087,1086>>>>]
     >>
    [] lang = "zh-cn" -> <<
       \* /[\u4e00-\u9fff]+/g
       [kind |-> "run", ranges |-> <<<<19968,40959>>>>, ci |-> FALSE],
       \* /[\u3400-\u4dbf]+/g
       [kind |-> "run", ranges |-> <<<<13312,19903>>>>, ci |-> FALSE]
     >>
    [] lang = "zh-tw" -> <<
       \* /[\u4e00-\u9fff]+/g
       [kind |-> "run", ranges |-> <<<<19968,40959>>>>, ci |-> FALSE],
       \* /[\u3400-\u4dbf]+/g
       [kind |-> "run", ranges |-> <<<<13312,19903>>>>, ci |-> FALSE]
     >>
    [] lang = "ja" -> <<
       \* /[\u3040-\u309f]+/g  Hiragana
       [kind |-> "run", ranges |-> <<<<12352,12447>>>>, ci |-> FALSE],
       \* /[\u30a0-\u30ff]+/g  Katakana
       [kind |-> "run", ranges |-> <<<<12448,12543>>>>, ci |-> FALSE],
       \* /[\u4e00-\u9faf]+/g  Kanji
       [kind |-> "run", ranges |-> <<<<19968,40879>>>>, ci |-> FALSE]
     >>
    [] lang = "ko" -> <<
       \* /[\uac00-\ud7af]+/g
       [kind |-> "run", ranges |-> <<<<44032,55215>>>>, ci |-> FALSE],
       \* /[\u1100-\u11ff]+/g
       [kind |-> "run", ranges |-> <<<<4352,4607>>>>, ci |-> FALSE]
     >>
    [] lang = "de" -> <<
       \* /\b(der|die|das|und|oder|aber|in|auf|mit)\b/gi
       [kind |-> "words", alts |-> <<<<100,101,114>>, <<100,105,101>>, <<100,97,115>>, <<117,110,100>>, <<111,100,101,114>>, <<97,98,101,114>>, <<105,110>>, <<97,117,102>>, <<109,105,116>>>>],
       \* /[äöüÄÖÜß]/g
       [kind |-> "char", ranges |-> <<<<228,228>>, <<246,246>>, <<252,252>>, <<196,196>>, <<214,214>>, <<220,220>>, <<223,223>>>>, ci |-> FALSE]
     >>
    [] lang = "fr" -> <<
       \* /\b(le|la|les|et|ou|mais|dans|sur|avec)\b/gi
       [kind |-> "words", alts |-> <<<<108,101>>, <<108,97>>, <<108,101,115>>, <<101,116>>, <<111,117>>, <<109,97,105,115>>, <<100,97,110,115>>, <<115,117,114>>, <<97,118,101,99>>>>],
       \* /[àâçèéêëîïôùûüÿœæ]/gi
       [kind |-> "char", ranges |-> <<<<224,224>>, <<226,226>>, <<231,231>>, <<232,232>>, <<233,233>>, <<234,234>>, <<235,235>>, <<238,238>>, <<239,239>>, <<244,244>>, <<249,249>>, <<251,251>>, <<252,252>>, <<255,255>>, <<339,339>>, <<230,230>>>>, ci |-> TRUE]
     >>
    [] lang = "es" -> <<
       \* /\b(el|la|los|las|y|o|pero|en|con)\b/gi
       [kind |-> "words", alts |-> <<<<101,108>>, <<108,97>>, <<108,111,115>>, <<108,97,115>>, <<121>>, <<111>>, <<112,101,114,111>>, <<101,110>>, <<99,111,110>>>>],
       \* /[áéíóúñ¿¡]/gi
       [kind |-> "char", ranges |-> <<<<225,225>>, <<233,233>>, <<237,237>>, <<243,243>>, <<250,250>>, <<241,241>>, <<191,191>>, <<161,161>>>>, ci |-> TRUE]
     >>
    [] lang = "pt" -> <<
       \* /\b(o|a|os|as|e|ou|mas|em|com)\b/gi
       [kind |-> "words", alts |-> <<<<111>>, <<97>>, <<111,115>>, <<97,115>>, <<101>>, <<111,117>>, <<109,97,115>>, <<101,109>>, <<99,111,109>>>>],
       \* /[àáâãçéêíóôõú]/gi
       [kind |-> "char", ranges |-> <<<<224,224>>, <<225,225>>, <<226,226>>, <<227,227>>, <<231,231>>, <<233,233>>, <<234,234>>, <<237,237>>, <<243,243>>, <<244,244>>, <<245,245>>, <<250,250>>>>, ci |-> TRUE]
     >>
    [] lang = "tr" -> <<
       \* /\b(ve|veya|ama|ile|için)\b/gi
       [kind |-> "words", alts |-> <<<<118,101>>, <<118,101,121,97>>, <<97,109,97>>, <<105,108,101>>, <<105,231,105,110>>>>],
       \* /[çğıöşüÇĞİÖŞÜ]/g
       [kind |-> "char", ranges |-> <<<<231,231>>, <<287,287>>, <<305,305>>, <<246,246>>, <<351,351>>, <<252,252>>, <<199,199>>, <<286,286>>, <<304,304>>, <<214,214>>, <<350,350>>, <<220,220>>>>, ci |-> FALSE]
     >>
    [] lang = "th" -> <<
       \* /[\u0e00-\u0e7f]+/g
       [kind |-> "run", ranges |-> <<<<3584,3711>>>>, ci |-> FALSE],
       \* /\b(และ|หรือ|แต่|ใน|กับ)\b/gi
       [kind |-> "words", alts |-> <<<<3649,3621,3632>>, <<3627,3619,3639,3629>>, <<3649,3605,3656>>, <<3651,3609>>, <<3585,3633,3610>>>>]
     >>
    [] lang = "it" -> <<
       \* /\b(il|la|lo|gli|le|e|o|ma|in|con)\b/gi
       [kind |-> "words", alts |-> <<<<105,108>>, <<108,97>>, <<108,111>>, <<103,108,105>>, <<108,101>>, <<101>>, <<111>>, <<109,97>>, <<105,110>>, <<99,111,110>>>>],
       \* /[àèéìòù]/gi
       [kind |-> "char", ranges |-> <<<<224,224>>, <<232,232>>, <<233,233>>, <<236,236>>, <<242,242>>, <<249,249>>>>, ci |-> TRUE]
     >>
    [] lang = "hi" -> <<
       \* /[\u0900-\u097f]+/g
       [kind |-> "run", ranges |-> <<<<2304,2431>>>>, ci |-> FALSE],
       \* /\b(और|या|लेकिन|में|के साथ)\b/gi
       [kind |-> "words", alts |-> <<<<2324,2352>>, <<2351,2366>>, <<2354,2375,2325,2367,2344>>, <<2350,2375,2306>>, <<2325,2375,32,2360,2366,2341>>>>]
     >>

\* COMMON_PHRASES: per language, the phrases that add 10 to the score.
COMMON_PHRASES(lang) ==
  \* hello, please, thank you, yes, no
  CASE lang = "en" -> <<<<104,101,108,108,111>>, <<112,108,101,97,115,101>>, <<116,104,97,110,107,32,121,111,117>>, <<121,101,115>>, <<110,111>>>>
  \* привет, пожалуйста, спасибо, да, нет
    [] lang = "ru" -> <<<<1087,1088,1080,1074,1077,1090>>, <<1087,1086,1078,1072,1083,1091,1081,1089,1090,1072>>, <<1089,1087,1072,1089,1080,1073,1086>>, <<1076,1072>>, <<1085,1077,1090>>>>
  \* 你好, 请, 谢谢, 是, 不是
    [] lang = "zh-cn" -> <<<<20320,22909>>, <<35831>>, <<35874,35874>>, <<26159>>, <<19981,26159>>>>
  \* 你好, 請, 謝謝, 是, 不是
    [] lang = "zh-tw" -> <<<<20320,22909>>, <<35531>>, <<35613,35613>>, <<26159>>, <<19981,26159>>>>
  \* こんにちは, お願いします, ありがとう, はい, いいえ
    [] lang = "ja" -> <<<<12371,12435,12395,12385,12399>>, <<12362,39000,12356,12375,12414,12377>>, <<12354,12426,12364,12392,12358>>, <<12399,12356>>, <<12356,12356,12360>>>>
  \* 안녕하세요, 부탁합니다, 감사합니다, 네, 아니요
    [] lang = "ko" -> <<<<50504,45397,54616,49464,50836>>, <<48512,53441,54633,45768,45796>>, <<44048,49324,54633,45768,45796>>, <<45348>>, <<50500,45768,50836>>>>
  \* hallo, bitte, danke, ja, nein
    [] lang = "de" -> <<<<104,97,108,108,111>>, <<98,105,116,116,101>>, <<100,97,110,107,101>>, <<106,97>>, <<110,101,105,110>>>>
  \* bonjour, s'il vous plaît, merci, oui, non
    [] lang = "fr" -> <<<<98,111,110,106,111,117,114>>, <<115,39,105,108,32,118,111,117,115,32,112,108,97,238,116>>, <<109,101,114,99,105>>, <<111,117,105>>, <<110,111,110>>>>
  \* hola, por favor, gracias, sí, no
    [] lang = "es" -> <<<<104,111,108,97>>, <<112,111,114,32,102,97,118,111,114>>, <<103,114,97,99,105,97,115>>, <<115,237>>, <<110,111>>>>
  \* olá, por favor, obrigado, sim, não
    [] lang = "pt" -> <<<<111,108,225>>, <<112,111,114,32,102,97,118,111,114>>, <<111,98,114,105,103,97,100,111>>, <<115,105,109>>, <<110,227,111>>>>
  \* merhaba, lütfen, teşekkürler, evet, hayır
    [] lang = "tr" -> <<<<109,101,114,104,97,98,97>>, <<108,252,116,102,101,110>>, <<116,101,351,101,107,107,252,114,108,101,114>>, <<101,118,101,116>>, <<104,97,121,305,114>>>>
  \* สวัสดี, กรุณา, ขอบคุณ, ใช่, ไม่
    [] lang = "th" -> <<<<3626,3623,3633,3626,3604,3637>>, <<3585,3619,3640,3603,3634>>, <<3586,3629,3610,3588,3640,3603>>, <<3651,3594,3656>>, <<3652,3617,3656>>>>
  \* ciao, per favore, grazie, sì, no
    [] lang = "it" -> <<<<99,105,97,111>>, <<112,101,114,32,102,97,118,111,114,101>>, <<103,114,97,122,105,101>>, <<115,236>>, <<110,111>>>>
  \* नमस्ते, कृपया, धन्यवाद, हाँ, नहीं
    [] lang = "hi" -> <<<<2344,2350,2360,2381,2340,2375>>, <<2325,2371,2346,2351,2366>>, <<2343,2344,2381,2351,2357,2366,2342>>, <<2361,2366,2305>>, <<2344,2361,2368,2306>>>>

\* getLanguagePrefix: the tag of each language's mock translation.
getLanguagePrefix(language) ==
  CASE language = "en" -> <<69,78>>  \* EN
    [] language = "ru" -> <<82,85>>  \* RU
    [] language = "zh-cn" -> <<90,72,45,67,78>>  \* ZH-CN
    [] language = "zh-tw" -> <<90,72,45,84,87>>  \* ZH-TW
    [] language = "ja" -> <<74,65>>  \* JA
    [] language = "ko" -> <<75,79>>  \* KO
    [] language = "de" -> <<68,69>>  \* DE
    [] language = "fr" -> <<70,82>>  \* FR
    [] language = "es" -> <<69,83>>  \* ES
    [] language = "pt" -> <<80,84>>  \* PT
    [] language = "tr" -> <<84,82>>  \* TR
    [] language = "th" -> <<84,72>>  \* TH
    [] language = "it" -> <<73,84>>  \* IT
    [] language = "hi" -> <<72,73>>  \* HI
    [] OTHER -> <<85,78,75,78,79,87,78>>  \* UNKNOWN

\* formalityMarkers of detectFormalityLevel: only these four languages have a table.
FormalityLanguages == {"en", "ru", "ja", "ko"}

formalityMarkers(language) ==
  CASE language = "en" ->
       \* informal: hey, hi, yeah, yep, nope, gonna, wanna
       [informal |-> <<<<104,101,121>>, <<104,105>>, <<121,101,97,104>>, <<121,101,112>>, <<110,111,112,101>>, <<103,111,110,110,97>>, <<119,97,110,110,97>>>>,
       \* formal: please, kindly, would you, could you, sir, madam
        formal |-> <<<<112,108,101,97,115,101>>, <<107,105,110,100,108,121>>, <<119,111,117,108,100,32,121,111,117>>, <<99,111,117,108,100,32,121,111,117>>, <<115,105,114>>, <<109,97,100,97,109>>>>,
       \* veryFormal: respectfully, esteemed, distinguished, honorable
        veryFormal |-> <<<<114,101,115,112,101,99,116,102,117,108,108,121>>, <<101,115,116,101,101,109,101,100>>, <<100,105,115,116,105,110,103,117,105,115,104,101,100>>, <<104,111,110,111,114,97,98,108,101>>>>]
    [] language = "ru" ->
       \* informal: привет, ты, твой, давай, окей
       [informal |-> <<<<1087,1088,1080,1074,1077,1090>>, <<1090,1099>>, <<1090,1074,1086,1081>>, <<1076,1072,1074,1072,1081>>, <<1086,1082,1077,1081>>>>,
       \* formal: вы, ваш, пожалуйста, будьте добры
        formal |-> <<<<1074,1099>>, <<1074,1072,1096>>, <<1087,1086,1078,1072,1083,1091,1081,1089,1090,1072>>, <<1073,1091,1076,1100,1090,1077,32,1076,1086,1073,1088,1099>>>>,
       \* veryFormal: уважаемый, господин, госпожа, высокоуважаемый
        veryFormal |-> <<<<1091,1074,1072,1078,1072,1077,1084,1099,1081>>, <<1075,1086,1089,1087,1086,1076,1080,1085>>, <<1075,1086,1089,1087,1086,1078,1072>>, <<1074,1099,1089,1086,1082,1086,1091,1074,1072,1078,1072,1077,1084,1099,1081>>>>]
    [] language = "ja" ->
       \* informal: だ, だよ, だね, じゃん, ちゃん
       [informal |-> <<<<12384>>, <<12384,12424>>, <<12384,12397>>, <<12376,12419,12435>>, <<12385,12419,12435>>>>,
       \* formal: です, ます, ください, さん
        formal |-> <<<<12391,12377>>, <<12414,12377>>, <<12367,12384,12373,12356>>, <<12373,12435>>>>,
       \* veryFormal: ございます, いらっしゃいます, 申し上げます, 様
        veryFormal |-> <<<<12372,12374,12356,12414,12377>>, <<12356,12425,12387,12375,12419,12356,12414,12377>>, <<30003,12375,19978,12370,12414,12377>>, <<27096>>>>]
    [] language = "ko" ->
       \* informal: 야, 아/어, 니, 너, 네
       [informal |-> <<<<50556>>, <<50500,47,50612>>, <<45768>>, <<45320>>, <<45348>>>>,
       \* formal: 요, 습니다, 세요, 씨
        formal |-> <<<<50836>>, <<49845,45768,45796>>, <<49464,50836>>, <<50472>>>>,
       \* veryFormal: 십니다, 하십시오, 님, 귀하
        veryFormal |-> <<<<49901,45768,45796>>, <<54616,49901,49884,50724>>, <<45784>>, <<44480,54616>>>>]

\* businessIndicators of detectBusinessContext, in the object's key order.
businessIndicators == <<
  \* meeting: meeting, встреча, 会議, 会议, 회의
  [context |-> "meeting", keywords |-> <<<<109,101,101,116,105,110,103>>, <<1074,1089,1090,1088,1077,1095,1072>>, <<20250,35696>>, <<20250,35758>>, <<54924,51032>>>>],
  \* presentation: presentation, презентация, プレゼン, 演示, 발표
  [context |-> "presentation", keywords |-> <<<<112,114,101,115,101,110,116,97,116,105,111,110>>, <<1087,1088,1077,1079,1077,1085,1090,1072,1094,1080,1103>>, <<12503,12524,12476,12531>>, <<28436,31034>>, <<48156,54364>>>>],
  \* negotiation: negotiation, переговоры, 交渉, 谈判, 협상
  [context |-> "negotiation", keywords |-> <<<<110,101,103,111,116,105,97,116,105,111,110>>, <<1087,1077,1088,1077,1075,1086,1074,1086,1088,1099>>, <<20132,28169>>, <<35848,21028>>, <<54801,49345>>>>],
  \* contract: contract, договор, 契約, 合同, 계약
  [context |-> "contract", keywords |-> <<<<99,111,110,116,114,97,99,116>>, <<1076,1086,1075,1086,1074,1086,1088>>, <<22865,32004>>, <<21512,21516>>, <<44228,50557>>>>]
>>

\* initializeIntentPatterns: the English patterns, in Map insertion order.
\*   capture = "target": /\b(alts)\b.*?(?<target>\w+)/i   "query": /\b(alts)\b.*?(?<query>.*)/i
\*   capture = "": /\b(alts)\b/i
enPatterns == <<
  \* create: create|make|build|generate|construct
  [intent |-> "create", capture |-> "target", alts |-> <<<<99,114,101,97,116,101>>, <<109,97,107,101>>, <<98,117,105,108,100>>, <<103,101,110,101,114,97,116,101>>, <<99,111,110,115,116,114,117,99,116>>>>],
  \* delete: delete|remove|destroy|eliminate
  [intent |-> "delete", capture |-> "target", alts |-> <<<<100,101,108,101,116,101>>, <<114,101,109,111,118,101>>, <<100,101,115,116,114,111,121>>, <<101,108,105,109,105,110,97,116,101>>>>],
  \* update: update|modify|change|edit
  [intent |-> "update", capture |-> "target", alts |-> <<<<117,112,100,97,116,101>>, <<109,111,100,105,102,121>>, <<99,104,97,110,103,101>>, <<101,100,105,116>>>>],
  \* search: search|find|look for|query
  [intent |-> "search", capture |-> "query", alts |-> <<<<115,101,97,114,99,104>>, <<102,105,110,100>>, <<108,111,111,107,32,102,111,114>>, <<113,117,101,114,121>>>>],
  \* help: help|assist|support|guide
  [intent |-> "help", capture |-> "", alts |-> <<<<104,101,108,112>>, <<97,115,115,105,115,116>>, <<115,117,112,112,111,114,116>>, <<103,117,105,100,101>>>>]
>>

\* initializeIntentPatterns: the Russian patterns, in Map insertion order.
\*   capture = "target": /\b(alts)\b.*?(?<target>\w+)/i   "query": /\b(alts)\b.*?(?<query>.*)/i
\*   capture = "": /\b(alts)\b/i
ruPatterns == <<
  \* create: создать|создай|сделать|сделай|построить
  [intent |-> "create", capture |-> "target", alts |-> <<<<1089,1086,1079,1076,1072,1090,1100>>, <<1089,1086,1079,1076,1072,1081>>, <<1089,1076,1077,1083,1072,1090,1100>>, <<1089,1076,1077,1083,1072,1081>>, <<1087,1086,1089,1090,1088,1086,1080,1090,1100>>>>],
  \* delete: удалить|удали|убрать|убери
  [intent |-> "delete", capture |-> "target", alts |-> <<<<1091,1076,1072,1083,1080,1090,1100>>, <<1091,1076,1072,1083,1080>>, <<1091,1073,1088,1072,1090,1100>>, <<1091,1073,1077,1088,1080>>>>],
  \* update: обновить|обнови|изменить|измени
  [intent |-> "update", capture |-> "target", alts |-> <<<<1086,1073,1085,1086,1074,1080,1090,1100>>, <<1086,1073,1085,1086,1074,1080>>, <<1080,1079,1084,1077,1085,1080,1090,1100>>, <<1080,1079,1084,1077,1085,1080>>>>],
  \* search: найти|найди|искать|ищи|поиск
  [intent |-> "search", capture |-> "query", alts |-> <<<<1085,1072,1081,1090,1080>>, <<1085,1072,1081,1076,1080>>, <<1080,1089,1082,1072,1090,1100>>, <<1080,1097,1080>>, <<1087,1086,1080,1089,1082>>>>],
  \* help: помощь|помоги|поддержка|справка
  [intent |-> "help", capture |-> "", alts |-> <<<<1087,1086,1084,1086,1097,1100>>, <<1087,1086,1084,1086,1075,1080>>, <<1087,1086,1076,1076,1077,1088,1078,1082,1072>>, <<1089,1087,1088,1072,1074,1082,1072>>>>]
>>

\* intentKeywords of inferIntent, in the object's key order.
intentKeywords == <<
  \* create: new, add, create, make, build
  [intent |-> "create", keywords |-> <<<<110,101,119>>, <<97,100,100>>, <<99,114,101,97,116,101>>, <<109,97,107,101>>, <<98,117,105,108,100>>>>],
  \* delete: delete, remove, destroy, clear
  [intent |-> "delete", keywords |-> <<<<100,101,108,101,116,101>>, <<114,101,109,111,118,101>>, <<100,101,115,116,114,111,121>>, <<99,108,101,97,114>>>>],
  \* update: update, change, modify, edit
  [intent |-> "update", keywords |-> <<<<117,112,100,97,116,101>>, <<99,104,97,110,103,101>>, <<109,111,100,105,102,121>>, <<101,100,105,116>>>>],
  \* search: find, search, look, where, what
  [intent |-> "search", keywords |-> <<<<102,105,110,100>>, <<115,101,97,114,99,104>>, <<108,111,111,107>>, <<119,104,101,114,101>>, <<119,104,97,116>>>>],
  \* help: help, how, why, explain, guide
  [intent |-> "help", keywords |-> <<<<104,101,108,112>>, <<104,111,119>>, <<119,104,121>>, <<101,120,112,108,97,105,110>>, <<103,117,105,100,101>>>>]
>>

(***************************************************************************)
(* LanguageManager.detectLanguage: scoring, ranking, script.               *)
(***************************************************************************)
\* The score of one language: regex matches, plus 10 for each common phrase
\* contained in the lower-cased text.
Score(lang, text) ==
  LET pats == LANGUAGE_PATTERNS(lang)
      phrases == COMMON_PHRASES(lang)
      lower == toLowerCase(text)
      hits == {k \in 1..Len(phrases) : includes(lower, toLowerCase(phrases[k]))}
  IN SumTo([k \in 1..Len(pats) |-> matchCount(text, pats[k])], Len(pats))
     + 10 * Cardinality(hits)

\* A variant of the sort that puts the later of two languages of equal score first.
sortedScoresLastFirst(scores) ==
  LET n == Len(Languages)
      rank(i) == 1 + Cardinality({j \in 1..n :
                   \/ scores[j] > scores[i]
                   \/ scores[j] = scores[i] /\ j > i})
  IN [r \in 1..n |-> LET i == CHOOSE i \in 1..n : rank(i) = r
                     IN [language |-> Languages[i], score |-> scores[i]]]

\* Array.from(scores.entries()).sort((a, b) => b[1] - a[1]): descending by score;
\* the sort is stable, so equal scores keep the enumeration order.
sortedScores(scores) ==
  LET n == Len(Languages)
      rank(i) == 1 + Cardinality({j \in 1..n :
                   \/ scores[j] > scores[i]
                   \/ scores[j] = scores[i] /\ j < i})
  IN [r \in 1..n |-> LET i == CHOOSE i \in 1..n : rank(i) = r
                     IN [language |-> Languages[i], score |-> scores[i]]]

\* detectScript: the first character family, in this order, with a character in the text.
detectScript(text) ==
  LET has(ranges) == \E i \in 1..Len(text) : InRanges(text[i], ranges)
  IN CASE has(<<<<1072, 1103>>, <<1040, 1071>>, <<1105, 1105>>, <<1025, 1025>>>>) -> "cyrillic"
       [] has(<<<<19968, 40959>>, <<12352, 12543>>, <<44032, 55215>>>>) -> "cjk"
       [] has(<<<<1536, 1791>>>>) -> "arabic"
       [] has(<<<<2304, 2431>>>>) -> "devanagari"
       [] OTHER -> "latin"

\* The scores map detectLanguage fills: the score of each of the first n languages,
\* in enumeration order.
RECURSIVE ScoresOf(_, _)
ScoresOf(text, n) ==
  IF n = 0 THEN <<>> ELSE Append(ScoresOf(text, n - 1), Score(Languages[n], text))

\* The result detectLanguage builds from the ranked scores and their sum
\* (lines 148-164).
detectionResult(text, sorted, totalScore) ==
  LET ratio(s) == IF totalScore > 0 THEN Frac(s, totalScore) ELSE Frac(0, 1)
  IN [language |-> sorted[1].language,
      confidence |-> ratio(sorted[1].score),
      alternatives |-> [k \in 1..3 |-> [language |-> sorted[k + 1].language,
                                        confidence |-> ratio(sorted[k + 1].score)]],
      script |-> detectScript(text)]

\* The result detectLanguage builds from the scores map.
rankedDetection(text, scores) ==
  detectionResult(text, sortedScores(scores), SumTo(scores, Len(scores)))

\* The result detectLanguage builds on a cache miss (lines 120-164).
ComputeDetection(text) == rankedDetection(text, ScoresOf(text, Len(Languages)))

\* CULTURAL_CONFIGS: the languages that have an entry (th, it and hi have none).
ConfiguredLanguages == {"en", "ru", "ja", "zh-cn", "zh-tw", "ko", "de", "fr", "es", "pt", "tr"}

\* CULTURAL_CONFIGS as the module is loaded.  pluralizationRules.one is kept as the
\* stored value: a number, or the tokens of the stored expression, or undefined.
CULTURAL_CONFIGS(lang) ==
  CASE lang = "en" ->
       \* US, America/New_York, MM/DD/YYYY, 1,234.56, $1,234.56; greeting Hi/Hello; one: 1
       [language |-> "en",
        region |-> <<85,83>>,
        timezone |-> <<65,109,101,114,105,99,97,47,78,101,119,95,89,111,114,107>>,
        dateFormat |-> <<77,77,47,68,68,47,89,89,89,89>>,
        numberFormat |-> <<49,44,50,51,52,46,53,54>>,
        currencyFormat |-> <<36,49,44,50,51,52,46,53,54>>,
        formalityLevel |-> "neutral",
        businessEtiquette |-> [greetingStyle |-> <<72,105,47,72,101,108,108,111>>,
                               communicationStyle |-> "direct",
                               decisionMaking |-> "individual"],
        writingDirection |-> "ltr",
        pluralizationRules |-> [one |-> [type |-> "number", value |-> 1, tokens |-> <<>>]]]
    [] lang = "ru" ->
       \* RU, Europe/Moscow, DD.MM.YYYY, 1 234,56, 1 234,56 ₽; greeting Здравствуйте; one: 'n % 10 == 1 && n % 100 != 11'
       [language |-> "ru",
        region |-> <<82,85>>,
        timezone |-> <<69,117,114,111,112,101,47,77,111,115,99,111,119>>,
        dateFormat |-> <<68,68,46,77,77,46,89,89,89,89>>,
        numberFormat |-> <<49,32,50,51,52,44,53,54>>,
        currencyFormat |-> <<49,32,50,51,52,44,53,54,32,8381>>,
        formalityLevel |-> "formal",
        businessEtiquette |-> [greetingStyle |-> <<1047,1076,1088,1072,1074,1089,1090,1074,1091,1081,1090,1077>>,
                               communicationStyle |-> "contextual",
                               decisionMaking |-> "hierarchical"],
        writingDirection |-> "ltr",
        pluralizationRules |-> [one |-> [type |-> "string", value |-> 0, tokens |-> <<[t |-> "n", v |-> 0], [t |-> "%", v |-> 0], [t |-> "num", v |-> 10], [t |-> "==", v |-> 0], [t |-> "num", v |-> 1], [t |-> "&&", v |-> 0], [t |-> "n", v |-> 0], [t |-> "%", v |-> 0], [t |-> "num", v |-> 100], [t |-> "!=", v |-> 0], [t |-> "num", v |-> 11]>>]]]
    [] lang = "ja" ->
       \* JP, Asia/Tokyo, YYYY年MM月DD日, 1,234.56, ¥1,234; greeting お世話になっております; one: None
       [language |-> "ja",
        region |-> <<74,80>>,
        timezone |-> <<65,115,105,97,47,84,111,107,121,111>>,
        dateFormat |-> <<89,89,89,89,24180,77,77,26376,68,68,26085>>,
        numberFormat |-> <<49,44,50,51,52,46,53,54>>,
        currencyFormat |-> <<165,49,44,50,51,52>>,
        formalityLevel |-> "very-formal",
        businessEtiquette |-> [greetingStyle |-> <<12362,19990,35441,12395,12394,12387,12390,12362,12426,12414,12377>>,
                               communicationStyle |-> "indirect",
                               decisionMaking |-> "consensus"],
        writingDirection |-> "ltr",
        pluralizationRules |-> [one |-> [type |-> "undefined", value |-> 0, tokens |-> <<>>]]]
    [] lang = "zh-cn" ->
       \* CN, Asia/Shanghai, YYYY年MM月DD日, 1,234.56, ¥1,234.56; greeting 您好; one: None
       [language |-> "zh-cn",
        region |-> <<67,78>>,
        timezone |-> <<65,115,105,97,47,83,104,97,110,103,104,97,105>>,
        dateFormat |-> <<89,89,89,89,24180,77,77,26376,68,68,26085>>,
        numberFormat |-> <<49,44,50,51,52,46,53,54>>,
        currencyFormat |-> <<165,49,44,50,51,52,46,53,54>>,
        formalityLevel |-> "formal",
        businessEtiquette |-> [greetingStyle |-> <<24744,22909>>,
                               communicationStyle |-> "indirect",
                               decisionMaking |-> "hierarchical"],
        writingDirection |-> "ltr",
        pluralizationRules |-> [one |-> [type |-> "undefined", value |-> 0, tokens |-> <<>>]]]
    [] lang = "zh-tw" ->
       \* TW, Asia/Taipei, YYYY年MM月DD日, 1,234.56, NT$1,234.56; greeting 您好; one: None
       [language |-> "zh-tw",
        region |-> <<84,87>>,
        timezone |-> <<65,115,105,97,47,84,97,105,112,101,105>>,
        dateFormat |-> <<89,89,89,89,24180,77,77,26376,68,68,26085>>,
        numberFormat |-> <<49,44,50,51,52,46,53,54>>,
        currencyFormat |-> <<78,84,36,49,44,50,51,52,46,53,54>>,
        formalityLevel |-> "formal",
        businessEtiquette |-> [greetingStyle |-> <<24744,22909>>,
                               communicationStyle |-> "indirect",
                               decisionMaking |-> "consensus"],
        writingDirection |-> "ltr",
        pluralizationRules |-> [one |-> [type |-> "undefined", value |-> 0, tokens |-> <<>>]]]
    [] lang = "ko" ->
       \* KR, Asia/Seoul, YYYY년 MM월 DD일, 1,234.56, ₩1,234; greeting 안녕하십니까; one: None
       [language |-> "ko",
        region |-> <<75,82>>,
        timezone |-> <<65,115,105,97,47,83,101,111,117,108>>,
        dateFormat |-> <<89,89,89,89,45380,32,77,77,50900,32,68,68,51068>>,
        numberFormat |-> <<49,44,50,51,52,46,53,54>>,
        currencyFormat |-> <<8361,49,44,50,51,52>>,
        formalityLevel |-> "very-formal",
        businessEtiquette |-> [greetingStyle |-> <<50504,45397,54616,49901,45768,44620>>,
                               communicationStyle |-> "indirect",
                               decisionMaking |-> "hierarchical"],
        writingDirection |-> "ltr",
        pluralizationRules |-> [one |-> [type |-> "undefined", value |-> 0, tokens |-> <<>>]]]
    [] lang = "de" ->
       \* DE, Europe/Berlin, DD.MM.YYYY, 1.234,56, 1.234,56 €; greeting Guten Tag; one: 'n == 1'
       [language |-> "de",
        region |-> <<68,69>>,
        timezone |-> <<69,117,114,111,112,101,47,66,101,114,108,105,110>>,
        dateFormat |-> <<68,68,46,77,77,46,89,89,89,89>>,
        numberFormat |-> <<49,46,50,51,52,44,53,54>>,
        currencyFormat |-> <<49,46,50,51,52,44,53,54,32,8364>>,
        formalityLevel |-> "formal",
        businessEtiquette |-> [greetingStyle |-> <<71,117,116,101,110,32,84,97,103>>,
                               communicationStyle |-> "direct",
                               decisionMaking |-> "consensus"],
        writingDirection |-> "ltr",
        pluralizationRules |-> [one |-> [type |-> "string", value |-> 0, tokens |-> <<[t |-> "n", v |-> 0], [t |-> "==", v |-> 0], [t |-> "num", v |-> 1]>>]]]
    [] lang = "fr" ->
       \* FR, Europe/Paris, DD/MM/YYYY, 1 234,56, 1 234,56 €; greeting Bonjour; one: 'n == 0 || n == 1'
       [language |-> "fr",
        region |-> <<70,82>>,
        timezone |-> <<69,117,114,111,112,101,47,80,97,114,105,115>>,
        dateFormat |-> <<68,68,47,77,77,47,89,89,89,89>>,
        numberFormat |-> <<49,32,50,51,52,44,53,54>>,
        currencyFormat |-> <<49,32,50,51,52,44,53,54,32,8364>>,
        formalityLevel |-> "formal",
        businessEtiquette |-> [greetingStyle |-> <<66,111,110,106,111,117,114>>,
                               communicationStyle |-> "contextual",
                               decisionMaking |-> "hierarchical"],
        writingDirection |-> "ltr",
        pluralizationRules |-> [one |-> [type |-> "string", value |-> 0, tokens |-> <<[t |-> "n", v |-> 0], [t |-> "==", v |-> 0], [t |-> "num", v |-> 0], [t |-> "||", v |-> 0], [t |-> "n", v |-> 0], [t |-> "==", v |-> 0], [t |-> "num", v |-> 1]>>]]]
    [] lang = "es" ->
       \* ES, Europe/Madrid, DD/MM/YYYY, 1.234,56, 1.234,56 €; greeting Hola/Buenos días; one: 'n == 1'
       [language |-> "es",
        region |-> <<69,83>>,
        timezone |-> <<69,117,114,111,112,101,47,77,97,100,114,105,100>>,
        dateFormat |-> <<68,68,47,77,77,47,89,89,89,89>>,
        numberFormat |-> <<49,46,50,51,52,44,53,54>>,
        currencyFormat |-> <<49,46,50,51,52,44,53,54,32,8364>>,
        formalityLevel |-> "neutral",
        businessEtiquette |-> [greetingStyle |-> <<72,111,108,97,47,66,117,101,110,111,115,32,100,237,97,115>>,
                               communicationStyle |-> "contextual",
                               decisionMaking |-> "hierarchical"],
        writingDirection |-> "ltr",
        pluralizationRules |-> [one |-> [type |-> "string", value |-> 0, tokens |-> <<[t |-> "n", v |-> 0], [t |-> "==", v |-> 0], [t |-> "num", v |-> 1]>>]]]
    [] lang = "pt" ->
       \* BR, America/Sao_Paulo, DD/MM/YYYY, 1.234,56, R$ 1.234,56; greeting Olá/Bom dia; one: 'n == 0 || n == 1'
       [language |-> "pt",
        region |-> <<66,82>>,
        timezone |-> <<65,109,101,114,105,99,97,47,83,97,111,95,80,97,117,108,111>>,
        dateFormat |-> <<68,68,47,77,77,47,89,89,89,89>>,
        numberFormat |-> <<49,46,50,51,52,44,53,54>>,
        currencyFormat |-> <<82,36,32,49,46,50,51,52,44,53,54>>,
        formalityLevel |-> "neutral",
        businessEtiquette |-> [greetingStyle |-> <<79,108,225,47,66,111,109,32,100,105,97>>,
                               communicationStyle |-> "contextual",
                               decisionMaking |-> "consensus"],
        writingDirection |-> "ltr",
        pluralizationRules |-> [one |-> [type |-> "string", value |-> 0, tokens |-> <<[t |-> "n", v |-> 0], [t |-> "==", v |-> 0], [t |-> "num", v |-> 0], [t |-> "||", v |-> 0], [t |-> "n", v |-> 0], [t |-> "==", v |-> 0], [t |-> "num", v |-> 1]>>]]]
    [] lang = "tr" ->
       \* TR, Europe/Istanbul, DD.MM.YYYY, 1.234,56, 1.234,56 ₺; greeting Merhaba/Günaydın; one: 'n == 1'
       [language |-> "tr",
        region |-> <<84,82>>,
        timezone |-> <<69,117,114,111,112,101,47,73,115,116,97,110,98,117,108>>,
        dateFormat |-> <<68,68,46,77,77,46,89,89,89,89>>,
        numberFormat |-> <<49,46,50,51,52,44,53,54>>,
        currencyFormat |-> <<49,46,50,51,52,44,53,54,32,8378>>,
        formalityLevel |-> "formal",
        businessEtiquette |-> [greetingStyle |-> <<77,101,114,104,97,98,97,47,71,252,110,97,121,100,305,110>>,
                               communicationStyle |-> "indirect",
                               decisionMaking |-> "hierarchical"],
        writingDirection |-> "ltr",
        pluralizationRules |-> [one |-> [type |-> "string", value |-> 0, tokens |-> <<[t |-> "n", v |-> 0], [t |-> "==", v |-> 0], [t |-> "num", v |-> 1]>>]]]

\* TIME_BASED_GREETINGS: morning, afternoon, evening, night (th, it and hi have none).
TIME_BASED_GREETINGS(lang) ==
  \* Good morning, Good afternoon, Good evening, Good night
  CASE lang = "en" -> [morning |-> <<71,111,111,100,32,109,111,114,110,105,110,103>>, afternoon |-> <<71,111,111,100,32,97,102,116,101,114,110,111,111,110>>, evening |-> <<71,111,111,100,32,101,118,101,110,105,110,103>>, night |-> <<71,111,111,100,32,110,105,103,104,116>>]
  \* Доброе утро, Добрый день, Добрый вечер, Спокойной ночи
    [] lang = "ru" -> [morning |-> <<1044,1086,1073,1088,1086,1077,32,1091,1090,1088,1086>>, afternoon |-> <<1044,1086,1073,1088,1099,1081,32,1076,1077,1085,1100>>, evening |-> <<1044,1086,1073,1088,1099,1081,32,1074,1077,1095,1077,1088>>, night |-> <<1057,1087,1086,1082,1086,1081,1085,1086,1081,32,1085,1086,1095,1080>>]
  \* おはようございます, こんにちは, こんばんは, おやすみなさい
    [] lang = "ja" -> [morning |-> <<12362,12399,12424,12358,12372,12374,12356,12414,12377>>, afternoon |-> <<12371,12435,12395,12385,12399>>, evening |-> <<12371,12435,12400,12435,12399>>, night |-> <<12362,12420,12377,12415,12394,12373,12356>>]
  \* 早上好, 下午好, 晚上好, 晚安
    [] lang = "zh-cn" -> [morning |-> <<26089,19978,22909>>, afternoon |-> <<19979,21320,22909>>, evening |-> <<26202,19978,22909>>, night |-> <<26202,23433>>]
  \* 早安, 午安, 晚安, 晚安
    [] lang = "zh-tw" -> [morning |-> <<26089,23433>>, afternoon |-> <<21320,23433>>, evening |-> <<26202,23433>>, night |-> <<26202,23433>>]
  \* 좋은 아침입니다, 안녕하세요, 좋은 저녁입니다, 안녕히 주무세요
    [] lang = "ko" -> [morning |-> <<51339,51008,32,50500,52840,51077,45768,45796>>, afternoon |-> <<50504,45397,54616,49464,50836>>, evening |-> <<51339,51008,32,51200,45377,51077,45768,45796>>, night |-> <<50504,45397,55176,32,51452,47924,49464,50836>>]
  \* Guten Morgen, Guten Tag, Guten Abend, Gute Nacht
    [] lang = "de" -> [morning |-> <<71,117,116,101,110,32,77,111,114,103,101,110>>, afternoon |-> <<71,117,116,101,110,32,84,97,103>>, evening |-> <<71,117,116,101,110,32,65,98,101,110,100>>, night |-> <<71,117,116,101,32,78,97,99,104,116>>]
  \* Bonjour, Bon après-midi, Bonsoir, Bonne nuit
    [] lang = "fr" -> [morning |-> <<66,111,110,106,111,117,114>>, afternoon |-> <<66,111,110,32,97,112,114,232,115,45,109,105,100,105>>, evening |-> <<66,111,110,115,111,105,114>>, night |-> <<66,111,110,110,101,32,110,117,105,116>>]
  \* Buenos días, Buenas tardes, Buenas tardes, Buenas noches
    [] lang = "es" -> [morning |-> <<66,117,101,110,111,115,32,100,237,97,115>>, afternoon |-> <<66,117,101,110,97,115,32,116,97,114,100,101,115>>, evening |-> <<66,117,101,110,97,115,32,116,97,114,100,101,115>>, night |-> <<66,117,101,110,97,115,32,110,111,99,104,101,115>>]
  \* Bom dia, Boa tarde, Boa noite, Boa noite
    [] lang = "pt" -> [morning |-> <<66,111,109,32,100,105,97>>, afternoon |-> <<66,111,97,32,116,97,114,100,101>>, evening |-> <<66,111,97,32,110,111,105,116,101>>, night |-> <<66,111,97,32,110,111,105,116,101>>]
  \* Günaydın, İyi günler, İyi akşamlar, İyi geceler
    [] lang = "tr" -> [morning |-> <<71,252,110,97,121,100,305,110>>, afternoon |-> <<304,121,105,32,103,252,110,108,101,114>>, evening |-> <<304,121,105,32,97,107,351,97,109,108,97,114>>, night |-> <<304,121,105,32,103,101,99,101,108,101,114>>]

(***************************************************************************)
(* CulturalContextAnalyzer.                                                *)
(***************************************************************************)
\* An absent enumerated field (language, formalityLevel, ...) of a JavaScript object.
Undefined == "undefined"

\* { ...undefined }: the object analyze() starts from when CULTURAL_CONFIGS has no entry.
EmptyProfile ==
  [language |-> Undefined, region |-> None, timezone |-> None, dateFormat |-> None,
   numberFormat |-> None, currencyFormat |-> None, formalityLevel |-> Undefined,
   businessEtiquette |-> None, writingDirection |-> Undefined,
   pluralizationRules |-> None]

\* markers.<tier>.forEach(marker => { if (lowerText.includes(marker)) count++ })
markerCount(lowerText, markers) ==
  Cardinality({k \in 1..Len(markers) : includes(lowerText, markers[k])})

\* A variant of detectFormalityLevel in which equal counts give formal.
detectFormalityLevelTieFormal(text, language) ==
  IF language \notin FormalityLanguages THEN "null"
  ELSE LET lowerText == toLowerCase(text)
           markers == formalityMarkers(language)
           informalCount == markerCount(lowerText, markers.informal)
           formalCount == markerCount(lowerText, markers.formal)
           veryFormalCount == markerCount(lowerText, markers.veryFormal)
       IN CASE veryFormalCount > 0 -> "very-formal"
            [] formalCount >= informalCount -> "formal"
            [] OTHER -> "informal"

\* detectFormalityLevel: "null" when the language has no marker table.
detectFormalityLevel(text, language) ==
  IF language \notin FormalityLanguages THEN "null"
  ELSE LET lowerText == toLowerCase(text)
           markers == formalityMarkers(language)
           informalCount == markerCount(lowerText, markers.informal)
           formalCount == markerCount(lowerText, markers.formal)
           veryFormalCount == markerCount(lowerText, markers.veryFormal)
       IN CASE veryFormalCount > 0 -> "very-formal"
            [] formalCount > informalCount -> "formal"
            [] informalCount > formalCount -> "informal"
            [] OTHER -> "neutral"

\* getTimeBasedGreeting: None (null) when the language has no greeting table.
getTimeBasedGreeting(language, hour) ==
  IF language \notin ConfiguredLanguages THEN None
  ELSE LET greetings == TIME_BASED_GREETINGS(language)
       IN CASE hour >= 5 /\ hour < 12 -> greetings.morning
            [] hour >= 12 /\ hour < 17 -> greetings.afternoon
            [] hour >= 17 /\ hour < 21 -> greetings.evening
            [] OTHER -> greetings.night

\* The loop of detectBusinessContext from the i-th topic on: only a negotiation or a
\* presentation hit returns; any other iteration falls through to the next topic.
RECURSIVE businessContextFrom(_, _)
businessContextFrom(lowerText, i) ==
  IF i > Len(businessIndicators) THEN None
  ELSE LET hit == someIncluded(lowerText, businessIndicators[i].keywords)
       IN CASE hit /\ businessIndicators[i].context = "negotiation" ->
                 [communicationStyle |-> "indirect", decisionMaking |-> "consensus"]
            [] hit /\ businessIndicators[i].context = "presentation" ->
                 [communicationStyle |-> "direct", decisionMaking |-> "hierarchical"]
            [] OTHER -> businessContextFrom(lowerText, i + 1)

\* detectBusinessContext: None (null) when no topic returns.
detectBusinessContext(text, language) == businessContextFrom(toLowerCase(text), 1)

\* { ...CULTURAL_CONFIGS[language] }: a copy of the top-level fields; businessEtiquette
\* (shared = TRUE) is still the object CULTURAL_CONFIGS[language] holds.
CopyBase(configs, language) ==
  IF language \in ConfiguredLanguages
  THEN [object |-> configs[language], shared |-> TRUE]
  ELSE [object |-> EmptyProfile, shared |-> FALSE]

\* The two steps of analyze() that read the text: detectFormalityLevel and
\* detectBusinessContext.
textAnalysis(text, language) ==
  [detectedFormality |-> detectFormalityLevel(text, language),
   businessContext |-> detectBusinessContext(text, language)]

\* analyze(language, text, options) on the table configs, given the outcome steps of
\* its two text-reading steps: the profile returned and the table afterwards.
\* options: region, timezone (None when absent), timeOfDay ([given, hour]).
analyzeWith(configs, language, options, steps) ==
  LET copy == CopyBase(configs, language)
      base == copy.object
      withRegion == IF options.region # None /\ options.region # <<>>
                    THEN [base EXCEPT !.region = options.region] ELSE base
      withZone == IF options.timezone # None /\ options.timezone # <<>>
                  THEN [withRegion EXCEPT !.timezone = options.timezone] ELSE withRegion
      withFormality == IF steps.detectedFormality # "null"
                       THEN [withZone EXCEPT !.formalityLevel = steps.detectedFormality]
                       ELSE withZone
      greeting == IF options.timeOfDay.given
                  THEN getTimeBasedGreeting(language, options.timeOfDay.hour) ELSE None
      etiquette0 == base.businessEtiquette
      etiquette1 == IF greeting # None /\ greeting # <<>> /\ etiquette0 # None
                    THEN [etiquette0 EXCEPT !.greetingStyle = greeting] ELSE etiquette0
      businessContext == steps.businessContext
      etiquette2 == IF businessContext # None /\ etiquette1 # None
                    THEN [etiquette1 EXCEPT
                            !.communicationStyle = businessContext.communicationStyle,
                            !.decisionMaking = businessContext.decisionMaking]
                    ELSE etiquette1
  IN [profile |-> [withFormality EXCEPT !.businessEtiquette = etiquette2],
      configs |-> IF copy.shared
                  THEN [configs EXCEPT ![language].businessEtiquette = etiquette2]
                  ELSE configs]

(***************************************************************************)
(* applyPluralization: eval(rules.one.replace('n', String(count))).        *)
(***************************************************************************)
\* String.prototype.replace with a string pattern: only the first 'n' is replaced.
replaceFirstN(tokens, count) ==
  LET ns == {i \in 1..Len(tokens) : tokens[i].t = "n"}
  IN IF ns = {} THEN tokens
     ELSE [tokens EXCEPT ![Min(ns)] = [t |-> "num", v |-> count]]

\* The sub-sequences of tokens between the occurrences of the operator sep.
RECURSIVE SplitOn(_, _)
SplitOn(tokens, sep) ==
  LET at == {i \in 1..Len(tokens) : tokens[i].t = sep}
  IN IF at = {} THEN <<tokens>>
     ELSE <<SubSeq(tokens, 1, Min(at) - 1)>>
          \o SplitOn(SubSeq(tokens, Min(at) + 1, Len(tokens)), sep)

\* One comparison, a op b or a % m op b: "ReferenceError" when it reads an n that was
\* not replaced (no variable n is in scope of the eval).
evalComparison(tokens) ==
  IF \E i \in 1..Len(tokens) : tokens[i].t = "n" THEN "ReferenceError"
  ELSE LET modulo == Len(tokens) = 5
           lhs == IF modulo THEN tokens[1].v % tokens[3].v ELSE tokens[1].v
           op == IF modulo THEN tokens[4].t ELSE tokens[2].t
           rhs == IF modulo THEN tokens[5].v ELSE tokens[3].v
           holds == CASE op = "==" -> lhs = rhs
                      [] op = "!=" -> lhs # rhs
                      [] op = ">" -> lhs > rhs
                      [] op = ">=" -> lhs >= rhs
                      [] op = "<" -> lhs < rhs
                      [] op = "<=" -> lhs <= rhs
       IN IF holds THEN "true" ELSE "false"

\* a && b && ...: left to right, stops at the first operand that is not true.
RECURSIVE evalAnd(_, _)
evalAnd(operands, i) ==
  LET v == evalComparison(operands[i])
  IN IF i = Len(operands) \/ v # "true" THEN v ELSE evalAnd(operands, i + 1)

\* a || b || ...: left to right, stops at the first operand that is not false.
RECURSIVE evalOr(_, _)
evalOr(operands, i) ==
  LET v == evalAnd(SplitOn(operands[i], "&&"), 1)
  IN IF i = Len(operands) \/ v # "false" THEN v ELSE evalOr(operands, i + 1)

\* eval of the expression: "true", "false" or "ReferenceError".
evalRule(tokens) == evalOr(SplitOn(tokens, "||"), 1)

\* applyPluralization(count, singular, plural, context): which argument is returned
\* ("singular", "plural"), or the error thrown.
applyPluralization(count, context) ==
  LET rules == context.pluralizationRules
  IN IF rules = None THEN (IF count = 1 THEN "singular" ELSE "plural")
     ELSE CASE rules.one.type = "undefined" -> "plural"
            \* a number has no replace method
            [] rules.one.type = "number" ->
                 IF rules.one.value # 0 THEN "TypeError" ELSE "plural"
            [] OTHER ->
                 LET v == evalRule(replaceFirstN(rules.one.tokens, count))
                 IN CASE v = "true" -> "singular"
                      [] v = "false" -> "plural"
                      [] OTHER -> v

(***************************************************************************)
(* LanguageManager.extractIntent and inferIntent.                          *)
(***************************************************************************)
\* A character that . does not match (no s flag): LF, CR, LS, PS.
IsLineTerminator(c) == c \in {10, 13, 8232, 8233}

\* For /\b(alts)\b.*?(?<target>\w+)/i with the verb ending at offset e: the offsets q
\* at which \w+ can start, i.e. s[q+1] is a word character and .*? can span e..q.
TargetStarts(s, e) ==
  {q \in e..(Len(s) - 1) :
     /\ IsWordChar(s[q + 1])
     /\ \A j \in (e + 1)..q : ~IsLineTerminator(s[j])}

\* The end of the run of characters satisfying ok that starts at s[q+1].
RunEnd(s, q, ok(_)) ==
  Min({r \in (q + 1)..Len(s) : r = Len(s) \/ ~ok(s[r + 1])})

IsDotChar(c) == ~IsLineTerminator(c)

\* The alternatives of p.alts that match at offset i with the rest of the pattern.
IntentAltsAt(s, i, p) ==
  {k \in 1..Len(p.alts) :
     /\ AtBoundary(s, i)
     /\ LiteralAt(s, i, p.alts[k])
     /\ AtBoundary(s, i + Len(p.alts[k]))
     /\ (p.capture = "target" => TargetStarts(s, i + Len(p.alts[k])) # {})}

\* pattern.test(text): some offset has a match.
patternTest(text, p) == \E i \in 0..Len(text) : IntentAltsAt(text, i, p) # {}

\* text.match(pattern).groups of the leftmost match, alternatives tried in order:
\* .*? is lazy, so target is the first run of word characters after the verb, and
\* query is everything from the verb to the end of the line.
patternGroups(text, p) ==
  LET i == Min({j \in 0..Len(text) : IntentAltsAt(text, j, p) # {}})
      k == Min(IntentAltsAt(text, i, p))
      e == i + Len(p.alts[k])
  IN CASE p.capture = "target" ->
            LET q == Min(TargetStarts(text, e))
            IN [n \in {"target"} |-> SubSeq(text, q + 1, RunEnd(text, q, IsWordChar))]
       [] p.capture = "query" ->
            [n \in {"query"} |->
               IF e = Len(text) \/ IsLineTerminator(text[e + 1]) THEN <<>>
               ELSE SubSeq(text, e + 1, RunEnd(text, e, IsDotChar))]
       [] OTHER -> <<>>

\* A variant of the lookup without the fallback to the English table.
intentPatternsOwnTable(language) ==
  CASE language = "en" -> enPatterns
    [] language = "ru" -> ruPatterns
    [] OTHER -> <<>>

\* this.intentPatterns.get(language) || this.intentPatterns.get(SupportedLanguage.EN)
intentPatterns(language) ==
  CASE language = "en" -> enPatterns
    [] language = "ru" -> ruPatterns
    [] OTHER -> enPatterns

\* A variant of inferIntent that returns the last intent with a keyword in the text.
inferIntentLastHit(text) ==
  LET lowerText == toLowerCase(text)
      hits == {k \in 1..Len(intentKeywords) : someIncluded(lowerText, intentKeywords[k].keywords)}
  IN IF hits = {} THEN "general"
     ELSE intentKeywords[CHOOSE k \in hits : \A j \in hits : j <= k].intent

\* inferIntent: the first intent, in key order, one of whose keywords the lower-cased
\* text contains; "general" when none.
inferIntent(text) ==
  LET lowerText == toLowerCase(text)
      hits == {k \in 1..Len(intentKeywords) : someIncluded(lowerText, intentKeywords[k].keywords)}
  IN IF hits = {} THEN "general" ELSE intentKeywords[Min(hits)].intent

\* extractIntent(text, language); confidence 0.8 is 4/5 and 0.5 is 1/2.
extractIntent(text, language) ==
  LET patterns == intentPatterns(language)
      matched == {k \in 1..Len(patterns) : patternTest(text, patterns[k])}
  IN IF matched # {}
     THEN [intent |-> patterns[Min(matched)].intent,
           entities |-> patternGroups(text, patterns[Min(matched)]),
           confidence |-> Frac(8, 10)]
     ELSE [intent |-> inferIntent(text), entities |-> <<>>, confidence |-> Frac(5, 10)]

(***************************************************************************)
(* LanguageManager.normalize.                                              *)
(***************************************************************************)
\* The code units String.prototype.trim removes: WhiteSpace and LineTerminator.
IsWhiteSpace(c) ==
  c \in {9, 10, 11, 12, 13, 32, 160, 5760, 8232, 8233, 8239, 8287, 12288, 65279}
        \cup (8192..8202)

\* A variant of trim that removes one code unit at most from each end.
trimOne(s) ==
  LET first == IF s # <<>> /\ IsWhiteSpace(s[1]) THEN 2 ELSE 1
      last == IF Len(s) >= first /\ IsWhiteSpace(s[Len(s)]) THEN Len(s) - 1 ELSE Len(s)
  IN SubSeq(s, first, last)

\* String.prototype.trim
trim(s) ==
  LET solid == {i \in 1..Len(s) : ~IsWhiteSpace(s[i])}
  IN IF solid = {} THEN <<>>
     ELSE SubSeq(s, Min(solid), CHOOSE i \in solid : \A j \in solid : j <= i)

\* String.prototype.toLowerCase on one code unit, as the units it yields: U+0130
\* gives two units (i, U+0307), a full-width capital its full-width small letter.
toLowerCaseUnits(c) ==
  CASE c = 304 -> <<105, 775>>
    [] c \in 65313..65338 -> <<c + 32>>
    [] OTHER -> <<toLowerCaseChar(c)>>

RECURSIVE toLowerCaseAll(_)
toLowerCaseAll(s) ==
  IF s = <<>> THEN <<>> ELSE toLowerCaseUnits(Head(s)) \o toLowerCaseAll(Tail(s))

\* text.replace(/[！-～]/g, ch => String.fromCharCode(ch.charCodeAt(0) - 0xfee0))
convertFullWidthToHalfWidth(text) ==
  [i \in 1..Len(text) |-> IF text[i] \in 65281..65374 THEN text[i] - 65248 ELSE text[i]]

\* normalizeChineseText: the text as it is.
normalizeChineseText(text) == text

\* normalize(text, language): trim, then the transform of the language.
normalize(text, language) ==
  LET normalized == trim(text)
  IN CASE language = "ja" -> convertFullWidthToHalfWidth(normalized)
       [] language \in {"zh-cn", "zh-tw"} -> normalizeChineseText(normalized)
       [] OTHER -> toLowerCaseAll(normalized)

(***************************************************************************)
(* Input texts: up to MaxWords distinct vocabulary words joined by single  *)
(* spaces.                                                                 *)
(***************************************************************************)
RECURSIVE WordLists(_, _)
WordLists(words, n) ==
  IF n = 0 THEN {<<>>}
  ELSE LET shorter == WordLists(words, n - 1)
       IN shorter \cup UNION {{Append(l, w) : w \in {x \in words :
                                                      \A k \in 1..Len(l) : l[k] # x}} :
                               l \in shorter}

RECURSIVE JoinWords(_)
JoinWords(l) ==
  IF l = <<>> THEN <<>>
  ELSE IF Len(l) = 1 THEN l[1]
  ELSE l[1] \o <<32>> \o JoinWords(Tail(l))

TextsOf(words, n) == {JoinWords(l) : l \in WordLists(words, n)}

\* Meeting, presentation, negotiation, contract
CultureWords ==
  {<<77,101,101,116,105,110,103>>, <<112,114,101,115,101,110,116,97,116,105,111,110>>,
   <<110,101,103,111,116,105,97,116,105,111,110>>, <<99,111,110,116,114,97,99,116>>}

CultureTexts == TextsOf(CultureWords, MaxWords)

\* The options passed to analyze(): none; region 'CA' and timezone 'UTC'; a time of
\* day in the morning (8h); one in the evening (18h).
AnalyzeOptions == <<
  [region |-> None, timezone |-> None, timeOfDay |-> [given |-> FALSE, hour |-> 0]],
  [region |-> <<67,65>>, timezone |-> <<85,84,67>>, timeOfDay |-> [given |-> FALSE, hour |-> 0]],
  [region |-> None, timezone |-> None, timeOfDay |-> [given |-> TRUE, hour |-> 8]],
  [region |-> None, timezone |-> None, timeOfDay |-> [given |-> TRUE, hour |-> 18]]
>>

\* create, a, new, project, Find, help
IntentWords ==
  {<<99,114,101,97,116,101>>, <<97>>, <<110,101,119>>, <<112,114,111,106,101,99,116>>,
   <<70,105,110,100>>, <<104,101,108,112>>}

\* 'create a new project'
CreateANewProject ==
  <<99,114,101,97,116,101,32,97,32,110,101,119,32,112,114,111,106,101,99,116>>

IntentTexts == TextsOf(IntentWords, MaxWords) \cup {CreateANewProject}

(***************************************************************************)
(* State.                                                                  *)
(***************************************************************************)
VARIABLES
  culturalConfigs,     \* the CULTURAL_CONFIGS table, as the running program holds it
  analysis,            \* the last analyze() call: arguments, profile returned
  pluralCall,          \* the last applyPluralization() call: count, result
  intentCall,          \* the last extractIntent() call: text, result
  inputLanguage,       \* the language under test: the language argument of the calls
  inputText,           \* the text under test of the detection calls
  detectionCache,      \* LanguageManager.detectionCache: text -> DetectionResult
  translationCache,    \* LanguageManager.translationCache: text -> (language -> text)
  detectCall,          \* the last detectLanguage() call: text, result returned, cache hit
  firstDetection,      \* history: text -> the result of its first detectLanguage() call
  detectedSinceClear,  \* history: the texts passed to detectLanguage() since the last clear
  translatedSinceClear,\* history: the source texts whose translation was stored since the last clear
  gmr,                 \* the generateMultilingualResponse() call in progress
  tasks,               \* its per-language translation tasks
  pnl,                 \* the processInNativeLanguage() call in progress
  memoryByLanguage,    \* PolyglotAgent.memoryByLanguage: language -> entries
  normalizeCall,       \* the last normalize() call: text, result
  translateCalls,      \* the LanguageManager.translate() calls of the callers
  workflow,            \* the WorkflowAggregate under test
  workflowCall,        \* the last call of one of its methods: method, step id, error
  product,             \* the Product under test
  productCall,         \* the last call on it: method or handler, arguments, error
  boundedContexts,     \* DDDDevelopmentService.boundedContexts: id -> context
  handlers,            \* CommandBus.handlers: the command types registered, in order
  sequence             \* the command sequence in progress

vars == <<culturalConfigs, analysis, pluralCall, intentCall, inputLanguage, inputText,
          detectionCache, translationCache, detectCall, firstDetection,
          detectedSinceClear, translatedSinceClear, gmr, tasks, pnl, memoryByLanguage,
          normalizeCall, translateCalls, workflow, workflowCall, product, productCall,
          boundedContexts, handlers, sequence>>

cultureVars == <<culturalConfigs, analysis>>
managerVars == <<detectionCache, translationCache, detectCall, firstDetection,
                 detectedSinceClear, translatedSinceClear>>
fanoutVars == <<gmr, tasks>>
pipelineVars == <<pnl, memoryByLanguage>>
callVars == <<normalizeCall, translateCalls>>
workflowVars == <<workflow, workflowCall>>
productVars == <<product, productCall>>
serviceVars == <<boundedContexts, handlers, sequence>>
domainVars == <<workflowVars, productVars, serviceVars>>

\* The table as the module is loaded.
InitialConfigs == [l \in ConfiguredLanguages |-> CULTURAL_CONFIGS(l)]

\* The state after construction: the table as loaded, empty caches, no call made.
InitState ==
  /\ culturalConfigs = InitialConfigs
  /\ analysis = None
  /\ pluralCall = None
  /\ intentCall = None
  /\ detectionCache = <<>>
  /\ translationCache = <<>>
  /\ detectCall = None
  /\ firstDetection = <<>>
  /\ detectedSinceClear = {}
  /\ translatedSinceClear = {}
  /\ gmr = [pc |-> "idle"]
  /\ tasks = <<>>
  /\ pnl = [pc |-> "idle", log |-> <<>>]
  /\ memoryByLanguage = <<>>
  /\ normalizeCall = None
  /\ translateCalls = [pending |-> <<>>, last |-> None]
  /\ workflow = None
  /\ workflowCall = None
  /\ product = None
  /\ productCall = None
  /\ boundedContexts = <<>>
  /\ handlers = <<"CreateBoundedContext", "AddAggregate", "GenerateCode">>
  /\ sequence = [pc |-> "idle"]

(***************************************************************************)
(* The cultural analyzer: analyze() calls for the language under test.     *)
(* analyze() reads and writes only CULTURAL_CONFIGS[language], so calls    *)
(* for different languages do not interact.                                *)
(***************************************************************************)
\* textAnalysis, evaluated once for each text of the culture corpus.
CultureTextAnalysis ==
  [t \in CultureTexts |-> [l \in SupportedLanguage |-> textAnalysis(t, l)]]

\* analyze(language, text, options) on the table configs.
analyze(configs, language, text, options) ==
  analyzeWith(configs, language, options,
              IF text \in CultureTexts THEN CultureTextAnalysis[text][language]
              ELSE textAnalysis(text, language))

Analyze(text, options) ==
  LET r == analyze(culturalConfigs, inputLanguage, text, options)
  IN /\ analysis' = [language |-> inputLanguage,
                     text |-> text,
                     options |-> options,
                     profile |-> r.profile]
     /\ culturalConfigs' = r.configs
     /\ UNCHANGED <<pluralCall, intentCall, inputLanguage, inputText>>
     /\ UNCHANGED domainVars
     /\ UNCHANGED pipelineVars
     /\ UNCHANGED callVars
     /\ UNCHANGED managerVars
     /\ UNCHANGED fanoutVars

InitCulture ==
  /\ InitState
  /\ inputLanguage \in SupportedLanguage
  /\ inputText = <<>>

NextCulture ==
  \E text \in CultureTexts, o \in 1..Len(AnalyzeOptions) : Analyze(text, AnalyzeOptions[o])

SpecCulture == InitCulture /\ [][NextCulture]_vars

(***************************************************************************)
(* applyPluralization on the base profile of the language under test (a    *)
(* profile without rules for a language that has no entry).                *)
(***************************************************************************)
BaseProfile(language) ==
  IF language \in ConfiguredLanguages THEN InitialConfigs[language] ELSE EmptyProfile

ApplyPluralization(count) ==
  /\ pluralCall' = [language |-> inputLanguage, count |-> count,
                    result |-> applyPluralization(count, BaseProfile(inputLanguage))]
  /\ UNCHANGED <<intentCall, inputLanguage, inputText>>
  /\ UNCHANGED domainVars
  /\ UNCHANGED pipelineVars
  /\ UNCHANGED callVars
  /\ UNCHANGED cultureVars
  /\ UNCHANGED managerVars
  /\ UNCHANGED fanoutVars

NextPlural == \E count \in 0..MaxCount : ApplyPluralization(count)

SpecPlural == InitCulture /\ [][NextPlural]_vars

(***************************************************************************)
(* extractIntent on a text, for the language under test.                   *)
(***************************************************************************)
ExtractIntent(text) ==
  /\ intentCall' = [language |-> inputLanguage, text |-> text,
                    result |-> extractIntent(text, inputLanguage)]
  /\ UNCHANGED <<pluralCall, inputLanguage, inputText>>
  /\ UNCHANGED domainVars
  /\ UNCHANGED pipelineVars
  /\ UNCHANGED callVars
  /\ UNCHANGED cultureVars
  /\ UNCHANGED managerVars
  /\ UNCHANGED fanoutVars

NextIntent == \E text \in IntentTexts : ExtractIntent(text)

SpecIntent == InitCulture /\ [][NextIntent]_vars

(***************************************************************************)
(* Properties of the cultural analyzer and of extractIntent.               *)
(***************************************************************************)
\* C1: after any sequence of analyze() calls the base profile of every language is
\* the one the module was loaded with, nested businessEtiquette fields included,
\* and the profile a call returns is the one the same call returns on the freshly
\* loaded table: it depends on (language, text, options) only.
C1_BaseProfilesNeverMutated ==
  /\ culturalConfigs = InitialConfigs
  /\ analysis # None =>
       analysis.profile =
         analyze(InitialConfigs, analysis.language, analysis.text, analysis.options).profile

\* C3: for each of the 14 supported languages and every text, analyze() returns a
\* profile whose language is the language asked for, whose dateFormat and
\* numberFormat are present and non-empty, and whose formalityLevel is one of
\* informal, neutral, formal, very-formal.
C3_AnalyzeReturnsWellFormedProfile ==
  analysis # None =>
    /\ analysis.profile.language = analysis.language
    /\ analysis.profile.dateFormat # None /\ analysis.profile.dateFormat # <<>>
    /\ analysis.profile.numberFormat # None /\ analysis.profile.numberFormat # <<>>
    /\ analysis.profile.formalityLevel \in {"informal", "neutral", "formal", "very-formal"}

\* The 'one' rule the profile of a language documents, as a predicate on the count.
oneRuleHolds(language, count) ==
  CASE language \in {"en", "de", "es", "tr"} -> count = 1
    [] language \in {"fr", "pt"} -> count \in {0, 1}
    [] language = "ru" -> count % 10 = 1 /\ count % 100 # 11
    [] language \in {"ja", "zh-cn", "zh-tw", "ko"} -> FALSE
    [] OTHER -> count = 1

\* C4: for every base profile and every count >= 0, applyPluralization returns the
\* singular or the plural form without raising an error, the singular exactly when
\* the profile's 'one' rule holds for the count (count = 1 for a profile without
\* rules).
C4_PluralizationFollowsOneRule ==
  pluralCall # None =>
    pluralCall.result =
      IF oneRuleHolds(pluralCall.language, pluralCall.count) THEN "singular" ELSE "plural"

\* 'project'
Project == <<112,114,111,106,101,99,116>>

\* C5: extractIntent("create a new project") for English returns intent create,
\* confidence 0.8 and the single entity target = "project".
C5_CreateTargetIsObjectWord ==
  (intentCall # None /\ intentCall.language = "en" /\ intentCall.text = CreateANewProject) =>
    /\ intentCall.result.intent = "create"
    /\ intentCall.result.confidence = Frac(8, 10)
    /\ intentCall.result.entities = [e \in {"target"} |-> Project]

\* Whether a keyword of the topic occurs in the text (case-insensitively).
mentions(text, topic) ==
  \E i \in 1..Len(businessIndicators) :
    /\ businessIndicators[i].context = topic
    /\ someIncluded(toLowerCase(text), businessIndicators[i].keywords)

\* The first topic, in the order meeting, presentation, negotiation, contract, a
\* keyword of which occurs in the text; "none" when there is none.
firstTopic(text) ==
  LET hits == {i \in 1..Len(businessIndicators) :
                 someIncluded(toLowerCase(text), businessIndicators[i].keywords)}
  IN IF hits = {} THEN "none" ELSE businessIndicators[Min(hits)].context

\* The etiquette fields a topic sets.
styleIs(etiquette, communicationStyle, decisionMaking) ==
  /\ etiquette.communicationStyle = communicationStyle
  /\ etiquette.decisionMaking = decisionMaking

\* The etiquette of the language the call is for, as the table held it before the call.
etiquetteBefore == culturalConfigs[analysis'.language].businessEtiquette

\* C6 as stated: only the first topic matched takes effect. A call whose first topic
\* is negotiation returns indirect / consensus, one whose first topic is presentation
\* returns direct / hierarchical, and when meeting or contract is the first topic
\* matched (or no topic is) communicationStyle and decisionMaking stay as they were.
C6_FirstTopicMatchedWins ==
  [][analysis'.language \in ConfiguredLanguages =>
       LET after == analysis'.profile.businessEtiquette
           first == firstTopic(analysis'.text)
       IN CASE first = "negotiation" -> styleIs(after, "indirect", "consensus")
            [] first = "presentation" -> styleIs(after, "direct", "hierarchical")
            [] OTHER -> styleIs(after, etiquetteBefore.communicationStyle,
                                etiquetteBefore.decisionMaking)]_vars

\* What the topic loop does instead (C6): meeting and contract keywords have no
\* influence at all. A text with a
\* presentation keyword gives direct / hierarchical, whatever other topics it
\* mentions; otherwise a text with a negotiation keyword gives indirect / consensus,
\* also when a meeting keyword occurs in it; otherwise communicationStyle and
\* decisionMaking stay as the table held them before the call. A language without
\* an entry in the table has no businessEtiquette, whatever the text.
C6_PresentationThenNegotiation ==
  [][LET after == analysis'.profile.businessEtiquette
         text == analysis'.text
     IN IF analysis'.language \notin ConfiguredLanguages THEN after = None
        ELSE CASE mentions(text, "presentation") -> styleIs(after, "direct", "hierarchical")
               [] mentions(text, "negotiation") -> styleIs(after, "indirect", "consensus")
               [] OTHER -> styleIs(after, etiquetteBefore.communicationStyle,
                                   etiquetteBefore.decisionMaking)]_vars

\* An English call whose text mentions a meeting first and a negotiation after it,
\* and that returned indirect / consensus.
C6_Witness_NegotiationAfterMeeting ==
  /\ analysis # None
  /\ analysis.language = "en"
  /\ firstTopic(analysis.text) = "meeting"
  /\ mentions(analysis.text, "negotiation")
  /\ ~mentions(analysis.text, "presentation")
  /\ styleIs(analysis.profile.businessEtiquette, "indirect", "consensus")

\* Whether the lower-cased text contains a keyword of the k-th keyword-map intent.
keywordHit(text, k) == someIncluded(toLowerCase(text), intentKeywords[k].keywords)

\* 'create help'
CreateHelp == <<99,114,101,97,116,101,32,104,101,108,112>>

\* C15: extractIntent returns confidence 0.8 exactly when a pattern of the table
\* of the resolved language matches the text and 0.5 otherwise; with 0.5 there are
\* no entities and the intent is the first of create, delete, update, search, help
\* with a keyword in the text, "general" when there is none; the intent is never
\* "unknown".
C15_ConfidenceMarksProvenance ==
  intentCall # None =>
    LET r == intentCall.result
        text == intentCall.text
        patterns == intentPatterns(intentCall.language)
        matched == \E k \in 1..Len(patterns) : patternTest(text, patterns[k])
        order == <<"create", "delete", "update", "search", "help">>
    IN /\ r.confidence = IF matched THEN Frac(8, 10) ELSE Frac(5, 10)
       /\ r.intent # "unknown"
       /\ ~matched =>
            /\ r.entities = <<>>
            /\ \A k \in 1..Len(order) : intentKeywords[k].intent = order[k]
            /\ IF \E k \in 1..Len(order) : keywordHit(text, k)
               THEN \E k \in 1..Len(order) :
                      /\ r.intent = order[k]
                      /\ keywordHit(text, k)
                      /\ \A j \in 1..(k - 1) : ~keywordHit(text, j)
               ELSE r.intent = "general"

\* 'create help' for Russian: no pattern of the Russian table matches, and of the
\* two intents with a keyword in the text the first, create, is returned.
C15_Witness_KeywordFallback ==
  /\ intentCall # None
  /\ intentCall.language = "ru"
  /\ intentCall.text = CreateHelp
  /\ intentCall.result.confidence = Frac(5, 10)
  /\ intentCall.result.intent = "create"

\* C16: for a language other than EN and RU, which has no pattern table of its own,
\* extractIntent returns the intent, entities and confidence that extractIntent
\* returns for the same text and EN.
C16_MissingTableBehavesAsEnglish ==
  (intentCall # None /\ intentCall.language \notin {"en", "ru"}) =>
    LET english == extractIntent(intentCall.text, "en")
    IN /\ intentCall.result.intent = english.intent
       /\ intentCall.result.entities = english.entities
       /\ intentCall.result.confidence = english.confidence

\* 'create a new project' for Thai is matched by the create pattern of the English
\* table.
C16_Witness_ThaiUsesEnglishPattern ==
  /\ intentCall # None
  /\ intentCall.language = "th"
  /\ intentCall.text = CreateANewProject
  /\ intentCall.result.intent = "create"
  /\ intentCall.result.confidence = Frac(8, 10)
  /\ DOMAIN intentCall.result.entities = {"target"}

(***************************************************************************)
(* LanguageManager: the detection cache.                                   *)
(***************************************************************************)
\* Hello, no, la, да, はい
DetectWords ==
  {<<72,101,108,108,111>>, <<110,111>>, <<108,97>>, <<1076,1072>>, <<12399,12356>>}

DetectTexts == TextsOf(DetectWords, MaxWords)

\* 'Hello, how are you today?': the other text detected besides the text under test.
OtherText ==
  <<72,101,108,108,111,44,32,104,111,119,32,97,114,101,32,121,111,117,32,116,111,100,97,121,63>>

\* What the executor may return: '', 'negotiation ok'
BaseResponses ==
  {<<>>, <<110,101,103,111,116,105,97,116,105,111,110,32,111,107>>}

\* The scoring of detectLanguage, evaluated once for each text of the corpus.
Detection == [t \in DetectTexts \cup {OtherText} \cup BaseResponses |-> ComputeDetection(t)]

\* A variant of the cache write that stores nothing.
detectionCacheKeep(cache, text, result) == cache

\* this.detectionCache.set(text, result)
detectionCacheSet(cache, text, result) == (text :> result) @@ cache

\* detectLanguage(text) on the cache, scored being the result the scoring of the
\* text gives: the result returned, the cache afterwards and whether the call
\* returned from the cache (hit) without scoring the text.
detectLanguageWith(cache, text, scored) ==
  IF text \in DOMAIN cache
  THEN [result |-> cache[text], cache |-> cache, hit |-> TRUE]
  ELSE [result |-> scored, cache |-> detectionCacheSet(cache, text, scored),
        hit |-> FALSE]

detectLanguage(cache, text) == detectLanguageWith(cache, text, Detection[text])

\* The record of a detection call: besides what it returned, whether the text had
\* been detected since the last clearCache (known) and ever before (repeated), and
\* whether the result is the one the language_detect tool returned (tool) rather
\* than the one detectLanguage returned to its caller.
DetectionCall(text, result, hit) ==
  [text |-> text, result |-> result, hit |-> hit,
   known |-> text \in detectedSinceClear,
   repeated |-> text \in DOMAIN firstDetection,
   tool |-> FALSE]

RecordDetectionBy(text, result, hit, tool) ==
  /\ detectCall' = [DetectionCall(text, result, hit) EXCEPT !.tool = tool]
  /\ firstDetection' = IF text \in DOMAIN firstDetection THEN firstDetection
                       ELSE (text :> result) @@ firstDetection
  /\ detectedSinceClear' = detectedSinceClear \cup {text}

RecordDetection(text, result, hit) ==
  /\ detectCall' = DetectionCall(text, result, hit)
  /\ firstDetection' = IF text \in DOMAIN firstDetection THEN firstDetection
                       ELSE (text :> result) @@ firstDetection
  /\ detectedSinceClear' = detectedSinceClear \cup {text}

\* A caller awaits a detectLanguage(text) call, r being what the call does, and
\* only reads the result.
Detected(text, r) ==
  /\ detectionCache' = r.cache
  /\ RecordDetection(text, r.result, r.hit)
  /\ UNCHANGED <<translationCache, translatedSinceClear, pluralCall, intentCall, inputLanguage, inputText>>
  /\ UNCHANGED domainVars
  /\ UNCHANGED pipelineVars
  /\ UNCHANGED callVars
  /\ UNCHANGED cultureVars
  /\ UNCHANGED fanoutVars

Detect(text) == Detected(text, detectLanguage(detectionCache, text))

\* A variant of clearCache that empties the translation cache only.
ClearTranslationCacheOnly ==
  /\ translationCache' = <<>>
  /\ detectedSinceClear' = {}
  /\ translatedSinceClear' = {}
  /\ UNCHANGED <<detectionCache, detectCall, firstDetection, pluralCall, intentCall,
                 inputLanguage, inputText>>
  /\ UNCHANGED domainVars
  /\ UNCHANGED pipelineVars
  /\ UNCHANGED callVars
  /\ UNCHANGED cultureVars
  /\ UNCHANGED fanoutVars

\* clearCache(): both caches are emptied.
ClearCache ==
  /\ translationCache' = <<>>
  /\ detectionCache' = <<>>
  /\ detectedSinceClear' = {}
  /\ translatedSinceClear' = {}
  /\ UNCHANGED <<detectCall, firstDetection, pluralCall, intentCall, inputLanguage, inputText>>
  /\ UNCHANGED domainVars
  /\ UNCHANGED pipelineVars
  /\ UNCHANGED callVars
  /\ UNCHANGED cultureVars
  /\ UNCHANGED fanoutVars

\* The text under test is any text of the corpus.
InitManager ==
  /\ InitState
  /\ inputLanguage = "en"
  /\ inputText \in DetectTexts \cup BaseResponses

NextManager ==
  \/ Detect(inputText)
  \/ Detect(OtherText)
  \/ ClearCache

\* A LanguageManager whose callers detect and clear: the one a PolyglotAgent owns.
SpecManager == InitManager /\ [][NextManager]_vars

(***************************************************************************)
(* createPolyglotTools: the tools share one LanguageManager of their own,  *)
(* which no tool ever clears.                                              *)
(***************************************************************************)
\* The hint argument of language_detect: absent ("none"), or a language.
Hints == {"none", "en", "ru", "ja"}

\* Math.min(1.0, confidence * 1.2)
boostConfidence(confidence) ==
  LET boosted == Frac(confidence.num * 6, confidence.den * 5)
  IN IF FracLess(Frac(1, 1), boosted) THEN Frac(1, 1) ELSE boosted

\* The language_detect handler, r being what its detectLanguage(text) call does: the
\* result object detectLanguage returned is the object the cache holds, and the
\* handler writes the boosted confidence into it.
LanguageDetected(text, hint, r) ==
  /\ LET boost == hint # "none" /\ r.result.language = hint
         confidence == IF boost THEN boostConfidence(r.result.confidence)
                       ELSE r.result.confidence
     IN /\ detectionCache' = [r.cache EXCEPT ![text].confidence = confidence]
        /\ RecordDetectionBy(text, [r.result EXCEPT !.confidence = confidence], r.hit, TRUE)
  /\ UNCHANGED <<translationCache, translatedSinceClear, pluralCall, intentCall, inputLanguage, inputText>>
  /\ UNCHANGED domainVars
  /\ UNCHANGED pipelineVars
  /\ UNCHANGED callVars
  /\ UNCHANGED cultureVars
  /\ UNCHANGED fanoutVars

LanguageDetect(text, hint) ==
  LanguageDetected(text, hint, detectLanguage(detectionCache, text))

NextTools ==
  \/ Detect(inputText)
  \/ Detect(OtherText)
  \/ \E hint \in Hints : LanguageDetect(inputText, hint)
  \/ \E hint \in Hints : LanguageDetect(OtherText, hint)

SpecTools == InitManager /\ [][NextTools]_vars

(***************************************************************************)
(* Properties of the detection cache.                                      *)
(***************************************************************************)
\* C2: every call that detects the language of a text returns a result equal in
\* all fields (language, confidence, alternatives, script) to the one the first
\* detection of that text returned, whatever ran in between.
C2_DetectionResultStable ==
  detectCall # None => detectCall.result = firstDetection[detectCall.text]

\* C7: a detectLanguage(t) call is answered from the cache, without scoring the
\* text, exactly when t was detected since the last clearCache(); so the first call
\* after a clearCache() scores the text again, and what it returns equals what the
\* detection of t returned before the clear.
C7_CacheHitUntilCleared ==
  detectCall # None =>
    /\ detectCall.hit = detectCall.known
    /\ detectCall.result = firstDetection[detectCall.text]

\* A text detected before is detected again after a clearCache(): a miss.
C7_Witness_MissAfterClear ==
  /\ detectCall # None
  /\ detectCall.repeated
  /\ ~detectCall.hit
  /\ detectCall.text = inputText
  /\ OtherText \in detectedSinceClear

\* The scores of the 14 languages for each text of the corpus, in enumeration order.
CorpusScores ==
  [t \in DetectTexts \cup {OtherText} \cup BaseResponses |-> ScoresOf(t, Len(Languages))]

\* C13: the result a detectLanguage(text) call returns to its caller has a confidence within
\* [0, 1] that is the winner's score divided by the sum of all scores (0 when the
\* sum is 0), the winner having the top score; it lists at most 3 alternatives, none
\* of them the winner, in non-increasing order of score, each with confidence
\* score / sum, which does not exceed the winner's confidence.
C13_ConfidenceIsWinnerShare ==
  (detectCall # None /\ ~detectCall.tool) =>
    LET r == detectCall.result
        scores == CorpusScores[detectCall.text]
        total == SumTo(scores, Len(scores))
        scoreOf(l) == scores[LangIndex(l)]
        share(l) == IF total > 0 THEN Frac(scoreOf(l), total) ELSE Frac(0, 1)
        alts == r.alternatives
    IN /\ FracLeq(Frac(0, 1), r.confidence) /\ FracLeq(r.confidence, Frac(1, 1))
       /\ \A j \in 1..Len(scores) : scores[j] <= scoreOf(r.language)
       /\ r.confidence = share(r.language)
       /\ Len(alts) <= 3
       /\ \A k \in 1..Len(alts) :
            /\ alts[k].language # r.language
            /\ alts[k].confidence = share(alts[k].language)
            /\ FracLeq(alts[k].confidence, r.confidence)
       /\ \A k \in 1..(Len(alts) - 1) : scoreOf(alts[k].language) >= scoreOf(alts[k + 1].language)

\* C14: a text on which every language scores 0 (the empty string among them) is
\* detected without error as the first-enumerated language, EN, with confidence 0,
\* alternatives that all have confidence 0 and one of the five script values.
C14_NoSignalGivesFirstLanguage ==
  (detectCall # None /\ \A j \in 1..Len(Languages) : CorpusScores[detectCall.text][j] = 0) =>
    LET r == detectCall.result
    IN /\ r.language = Languages[1]
       /\ r.language = "en"
       /\ r.confidence = Frac(0, 1)
       /\ \A k \in 1..Len(r.alternatives) : r.alternatives[k].confidence = Frac(0, 1)
       /\ r.script \in {"latin", "cyrillic", "cjk", "arabic", "devanagari"}

\* A text other than the empty string on which every language scores 0, returned
\* from the cache to a caller of detectLanguage.
C14_Witness_NoSignalText ==
  /\ detectCall # None
  /\ detectCall.text # <<>>
  /\ \A j \in 1..Len(Languages) : CorpusScores[detectCall.text][j] = 0
  /\ detectCall.hit
  /\ ~detectCall.tool

(***************************************************************************)
(* LanguageManager.translate and the translation cache.                    *)
(***************************************************************************)
\* A variant of the mock translation that returns the text as it is.
returnUntranslated(text, targetLanguage) == text

\* `[${prefix}] ${text}`
performTranslation(text, targetLanguage) ==
  <<91>> \o getLanguagePrefix(targetLanguage) \o <<93, 32>> \o text

\* A variant of the cache check that takes the translation cached for the text
\* under any language.
cachedTranslationAnyLanguage(cache, text, targetLanguage) ==
  IF text \in DOMAIN cache /\ DOMAIN cache[text] # {}
  THEN cache[text][CHOOSE l \in DOMAIN cache[text] : TRUE]
  ELSE None

\* The cache check of translate(): the cached translation, None when the text has no
\* map, the map has no entry for the language, or the entry is the empty string.
cachedTranslation(cache, text, targetLanguage) ==
  IF /\ text \in DOMAIN cache
     /\ targetLanguage \in DOMAIN cache[text]
     /\ cache[text][targetLanguage] # <<>>
  THEN cache[text][targetLanguage]
  ELSE None

\* A variant of the cache write that always starts a new per-text map.
translationCacheReplace(cache, text, targetLanguage, translated) ==
  (text :> (targetLanguage :> translated)) @@ cache

\* if (!has(text)) set(text, new Map()); get(text).set(targetLanguage, translated)
translationCacheSet(cache, text, targetLanguage, translated) ==
  IF text \in DOMAIN cache
  THEN [cache EXCEPT ![text] = (targetLanguage :> translated) @@ @]
  ELSE (text :> (targetLanguage :> translated)) @@ cache

(***************************************************************************)
(* PolyglotAgent.generateMultilingualResponse: one call on an agent whose  *)
(* primary language is the language under test. A step is the code that    *)
(* runs between two awaits; the steps of the per-language translations     *)
(* interleave in every order.                                              *)
(***************************************************************************)
primaryLanguage == inputLanguage

\* The primary languages of the agents considered.
PrimaryLanguages == {"en", "th"}

\* The languages a request may list, in any order and with repetitions.
RequestLanguages == {"en", "ru", "ja"}

LanguageLists == UNION {[1..n -> RequestLanguages] : n \in 0..MaxLangs}

\* responses[key] = value on an object: a present key keeps its place, a new key is
\* added after the others.
setProperty(object, key, value) ==
  IF \E i \in 1..Len(object) : object[i].key = key
  THEN [i \in 1..Len(object) |->
          IF object[i].key = key THEN [key |-> key, value |-> value] ELSE object[i]]
  ELSE Append(object, [key |-> key, value |-> value])

\* The keys of an object and the value it holds under a key.
keysOf(object) == {object[i].key : i \in 1..Len(object)}

valueOf(object, key) ==
  object[CHOOSE i \in 1..Len(object) : object[i].key = key].value

\* A variant of the filter that keeps the primary language.
everyLanguage(languages) == languages

\* languages.filter(lang => lang !== this.primaryLanguage)
otherLanguages(languages) ==
  SelectSeq(languages, LAMBDA lang : lang # primaryLanguage)

\* A variant of the join that lets the call go on as soon as one translation is done.
anyDone(ts) == \E k \in 1..Len(ts) : ts[k].pc = "done"

\* Promise.all(translationPromises): every translation has completed.
allDone(ts) == \A k \in 1..Len(ts) : ts[k].pc = "done"

\* A variant in which the translations run only while the call awaits them.
runsWhileAwaited(pc) == pc = "translating"

\* The translations started run on whether the call still awaits them or has
\* rejected: nothing cancels the promises handed to Promise.all.
translationRuns(pc) == pc \in {"translating", "rejected"}

\* generateMultilingualResponse(prompt, languages) is called: up to its first await,
\* the call of the executor.
Generate(languages) ==
  /\ gmr.pc = "idle"
  /\ gmr' = [pc |-> "executing", languages |-> languages, baseResponse |-> None,
             responses |-> <<>>, failures |-> <<>>, error |-> None]
  /\ UNCHANGED tasks
  /\ UNCHANGED <<pluralCall, intentCall, inputLanguage, inputText>>
  /\ UNCHANGED domainVars
  /\ UNCHANGED pipelineVars
  /\ UNCHANGED callVars
  /\ UNCHANGED cultureVars
  /\ UNCHANGED managerVars

\* The executor throws: the call rejects before any translation is started.
ExecuteThrows ==
  /\ gmr.pc = "executing"
  /\ gmr' = [gmr EXCEPT !.pc = "rejected"]
  /\ UNCHANGED tasks
  /\ UNCHANGED <<pluralCall, intentCall, inputLanguage, inputText>>
  /\ UNCHANGED domainVars
  /\ UNCHANGED pipelineVars
  /\ UNCHANGED callVars
  /\ UNCHANGED cultureVars
  /\ UNCHANGED managerVars

\* The executor returns baseResponse: it is stored under the primary language, and
\* the translation of every other requested language is started. Each runs, in list
\* order, up to its first await: PolyglotAgent.translate -> detectLanguage ->
\* LanguageManager.detectLanguage(baseResponse); first is what the first of these
\* calls does, and the others are answered from the detection cache.
Executed(baseResponse, targets, first) ==
  /\ gmr.pc = "executing"
  /\ gmr' = [gmr EXCEPT !.pc = "translating",
                        !.baseResponse = baseResponse,
                        !.responses = setProperty(@, primaryLanguage, baseResponse)]
  /\ tasks' = [k \in 1..Len(targets) |->
                 [language |-> targets[k], pc |-> "detecting",
                  detection |-> first.result, translated |-> None]]
  /\ IF targets = <<>>
     THEN UNCHANGED <<detectionCache, detectCall, firstDetection, detectedSinceClear>>
     ELSE /\ detectionCache' = first.cache
          /\ detectCall' = IF Len(targets) = 1
                           THEN DetectionCall(baseResponse, first.result, first.hit)
                           ELSE [text |-> baseResponse, result |-> first.result,
                                 hit |-> TRUE, known |-> TRUE, repeated |-> TRUE,
                                 tool |-> FALSE]
          /\ firstDetection' = IF baseResponse \in DOMAIN firstDetection
                               THEN firstDetection
                               ELSE (baseResponse :> first.result) @@ firstDetection
          /\ detectedSinceClear' = detectedSinceClear \cup {baseResponse}
  /\ UNCHANGED <<translationCache, translatedSinceClear>>
  /\ UNCHANGED <<pluralCall, intentCall, inputLanguage, inputText>>
  /\ UNCHANGED domainVars
  /\ UNCHANGED pipelineVars
  /\ UNCHANGED callVars
  /\ UNCHANGED cultureVars

ExecuteReturns(baseResponse) ==
  Executed(baseResponse, otherLanguages(gmr.languages),
           detectLanguage(detectionCache, baseResponse))

\* The detection of translation k has resolved: the source language is read from
\* it and LanguageManager.translate runs up to its first await. A cache hit returns
\* the cached text; otherwise performTranslation is called and awaited.
TranslateStart(k) ==
  LET cached == cachedTranslation(translationCache, gmr.baseResponse, tasks[k].language)
  IN /\ translationRuns(gmr.pc)
     /\ tasks[k].pc = "detecting"
     /\ tasks' = [tasks EXCEPT ![k] =
                    IF cached # None
                    THEN [@ EXCEPT !.pc = "translated", !.translated = cached]
                    ELSE [@ EXCEPT !.pc = "performing",
                                   !.translated = performTranslation(gmr.baseResponse,
                                                                     tasks[k].language)]]
     /\ UNCHANGED gmr
     /\ UNCHANGED <<pluralCall, intentCall, inputLanguage, inputText>>
     /\ UNCHANGED domainVars
     /\ UNCHANGED pipelineVars
     /\ UNCHANGED callVars
     /\ UNCHANGED cultureVars
     /\ UNCHANGED managerVars

\* performTranslation of translation k has resolved: LanguageManager.translate
\* writes the cache and returns.
TranslateStore(k) ==
  /\ translationRuns(gmr.pc)
  /\ tasks[k].pc = "performing"
  /\ translationCache' = translationCacheSet(translationCache, gmr.baseResponse,
                                             tasks[k].language, tasks[k].translated)
  /\ translatedSinceClear' = translatedSinceClear \cup {gmr.baseResponse}
  /\ tasks' = [tasks EXCEPT ![k].pc = "translated"]
  /\ UNCHANGED gmr
  /\ UNCHANGED <<detectionCache, detectCall, firstDetection, detectedSinceClear>>
  /\ UNCHANGED <<pluralCall, intentCall, inputLanguage, inputText>>
  /\ UNCHANGED domainVars
  /\ UNCHANGED pipelineVars
  /\ UNCHANGED callVars
  /\ UNCHANGED cultureVars

\* LanguageManager.translate of translation k has resolved: culturalAdaptation is
\* set, so PolyglotAgent.translate calls analyze(targetLanguage, translated) and
\* awaits it.
Adapt(k) ==
  /\ translationRuns(gmr.pc)
  /\ tasks[k].pc = "translated"
  /\ \E r \in {analyze(culturalConfigs, tasks[k].language, tasks[k].translated,
                       AnalyzeOptions[1])} :
       /\ analysis' = [language |-> tasks[k].language, text |-> tasks[k].translated,
                       options |-> AnalyzeOptions[1], profile |-> r.profile]
       /\ culturalConfigs' = r.configs
  /\ tasks' = [tasks EXCEPT ![k].pc = "adapting"]
  /\ UNCHANGED gmr
  /\ UNCHANGED <<pluralCall, intentCall, inputLanguage, inputText>>
  /\ UNCHANGED domainVars
  /\ UNCHANGED pipelineVars
  /\ UNCHANGED callVars
  /\ UNCHANGED managerVars

\* analyze of translation k has resolved: applyCulturalAdaptations returns the
\* content as it is, and the callback stores it under its language.
Assign(k) ==
  /\ translationRuns(gmr.pc)
  /\ tasks[k].pc = "adapting"
  /\ gmr' = [gmr EXCEPT !.responses =
               setProperty(@, tasks[k].language, tasks[k].translated)]
  /\ tasks' = [tasks EXCEPT ![k].pc = "done"]
  /\ UNCHANGED <<pluralCall, intentCall, inputLanguage, inputText>>
  /\ UNCHANGED domainVars
  /\ UNCHANGED pipelineVars
  /\ UNCHANGED callVars
  /\ UNCHANGED cultureVars
  /\ UNCHANGED managerVars

\* Promise.all has resolved: the call returns responses.
Resolve ==
  /\ gmr.pc = "translating"
  /\ allDone(tasks)
  /\ gmr' = [gmr EXCEPT !.pc = "resolved"]
  /\ UNCHANGED tasks
  /\ UNCHANGED <<pluralCall, intentCall, inputLanguage, inputText>>
  /\ UNCHANGED domainVars
  /\ UNCHANGED pipelineVars
  /\ UNCHANGED callVars
  /\ UNCHANGED cultureVars
  /\ UNCHANGED managerVars

InitFanout ==
  /\ InitState
  /\ inputLanguage \in PrimaryLanguages
  /\ inputText = <<>>

NextFanout ==
  \/ \E languages \in LanguageLists : Generate(languages)
  \/ ExecuteThrows
  \/ \E baseResponse \in BaseResponses : ExecuteReturns(baseResponse)
  \/ \E k \in 1..Len(tasks) : TranslateStart(k)
  \/ \E k \in 1..Len(tasks) : TranslateStore(k)
  \/ \E k \in 1..Len(tasks) : Adapt(k)
  \/ \E k \in 1..Len(tasks) : Assign(k)
  \/ Resolve

SpecFanout == InitFanout /\ [][NextFanout]_vars

(***************************************************************************)
(* PolyglotAgent.processInNativeLanguage: one request at a time. A step is *)
(* the code that runs between two awaits. execute() and addMemory() belong *)
(* to the base agent: each either resolves or rejects.                     *)
(***************************************************************************)
\* The number of requests a behaviour makes.
MaxRequests == 2

\* The inputs of the requests: '', 'negotiation ok', 'Hello, how are you today?', 'да'
PipelineInputs == BaseResponses \cup {OtherText, <<1076, 1072>>}

\* The explicitLanguage argument: absent (undefined) or a language.
ExplicitLanguages == {Undefined, "en", "ja", "th"}

\* What the executor may return.
ExecutorResults == BaseResponses

\* A variant that starts the stage while the one before it is still running.
startStageEarly(p, stage) == [p EXCEPT !.stages = Append(@, stage)]

\* A stage is started: the one before it, if any, has finished.
startStage(p, stage) ==
  [p EXCEPT !.stages = Append(@, stage), !.finished = Len(p.stages)]

\* detection.confidence < 0.7 && detection.alternatives.length > 0
lowConfidence(detection) ==
  FracLess(detection.confidence, Frac(7, 10)) /\ Len(detection.alternatives) > 0

\* this.culturalAnalyzer.analyze(detectedLanguage, input) is called (line 78).
PnlAnalyze(p, language, r) ==
  /\ pnl' = startStage([p EXCEPT !.pc = "analyzing", !.detectedLanguage = language,
                                 !.culturalContext = r.profile], "analyze")
  /\ analysis' = [language |-> language, text |-> p.input, options |-> AnalyzeOptions[1],
                  profile |-> r.profile]
  /\ culturalConfigs' = r.configs

\* processInNativeLanguage(input, explicitLanguage) is called: with an explicit
\* language the detection is skipped.
ProcessCalled(input, explicitLanguage, p, d) ==
  /\ pnl.pc \in {"idle", "resolved", "rejected"}
  /\ Len(pnl.log) < MaxRequests
  /\ IF explicitLanguage # Undefined
     THEN /\ PnlAnalyze(p, explicitLanguage,
                        analyze(culturalConfigs, explicitLanguage, input, AnalyzeOptions[1]))
          /\ UNCHANGED managerVars
     ELSE /\ pnl' = startStage([p EXCEPT !.pc = "detecting", !.detection = d.result],
                               "detect")
          /\ detectionCache' = d.cache
          /\ RecordDetection(input, d.result, d.hit)
          /\ UNCHANGED <<translationCache, translatedSinceClear>>
          /\ UNCHANGED cultureVars
  /\ UNCHANGED <<pluralCall, intentCall, inputLanguage, inputText, memoryByLanguage>>
  /\ UNCHANGED domainVars
  /\ UNCHANGED fanoutVars
  /\ UNCHANGED callVars

ProcessInNativeLanguage(input, explicitLanguage) ==
  ProcessCalled(input, explicitLanguage,
                [pc |-> "idle", input |-> input, explicitLanguage |-> explicitLanguage,
                 detection |-> None, warned |-> FALSE, detectedLanguage |-> None,
                 culturalContext |-> None, normalized |-> None, command |-> None,
                 response |-> None, stages |-> <<>>, finished |-> 0,
                 thrown |-> "none", rejection |-> "none", result |-> None,
                 memoryBefore |-> memoryByLanguage,
                 log |-> Append(pnl.log, input)],
                detectLanguage(detectionCache, input))

\* The detection has resolved: a low confidence is logged, and analyze is called.
PnlDetected ==
  /\ pnl.pc = "detecting"
  /\ PnlAnalyze([pnl EXCEPT !.warned = lowConfidence(pnl.detection)],
                pnl.detection.language,
                analyze(culturalConfigs, pnl.detection.language, pnl.input,
                        AnalyzeOptions[1]))
  /\ UNCHANGED <<pluralCall, intentCall, inputLanguage, inputText, memoryByLanguage>>
  /\ UNCHANGED domainVars
  /\ UNCHANGED managerVars
  /\ UNCHANGED fanoutVars
  /\ UNCHANGED callVars

\* analyze has resolved: parseMultilingualCommand calls normalize(input, language).
PnlAnalyzed ==
  /\ pnl.pc = "analyzing"
  /\ LET normalized == normalize(pnl.input, pnl.detectedLanguage)
     IN /\ pnl' = startStage([pnl EXCEPT !.pc = "normalizing", !.normalized = normalized],
                             "normalize")
        /\ normalizeCall' = [language |-> pnl.detectedLanguage, text |-> pnl.input,
                             result |-> normalized]
  /\ UNCHANGED <<pluralCall, intentCall, inputLanguage, inputText, memoryByLanguage>>
  /\ UNCHANGED domainVars
  /\ UNCHANGED translateCalls
  /\ UNCHANGED cultureVars
  /\ UNCHANGED managerVars
  /\ UNCHANGED fanoutVars

\* normalize has resolved: extractIntent(normalized, language) is called.
PnlNormalized ==
  /\ pnl.pc = "normalizing"
  /\ LET r == extractIntent(pnl.normalized, pnl.detectedLanguage)
     IN /\ pnl' = startStage([pnl EXCEPT !.pc = "extracting",
                                         !.command = [rawInput |-> pnl.input,
                                                      detectedLanguage |-> pnl.detectedLanguage,
                                                      normalizedCommand |-> pnl.normalized,
                                                      intent |-> r.intent,
                                                      entities |-> r.entities,
                                                      confidence |-> r.confidence]],
                             "extract")
        /\ intentCall' = [language |-> pnl.detectedLanguage, text |-> pnl.normalized,
                          result |-> r]
  /\ UNCHANGED <<pluralCall, inputLanguage, inputText, memoryByLanguage>>
  /\ UNCHANGED domainVars
  /\ UNCHANGED callVars
  /\ UNCHANGED cultureVars
  /\ UNCHANGED managerVars
  /\ UNCHANGED fanoutVars

\* extractIntent has resolved: the command is returned, and
\* executeWithCulturalContext calls this.execute(...).
PnlExtracted ==
  /\ pnl.pc = "extracting"
  /\ pnl' = startStage([pnl EXCEPT !.pc = "executing"], "execute")
  /\ UNCHANGED <<pluralCall, intentCall, inputLanguage, inputText, memoryByLanguage>>
  /\ UNCHANGED domainVars
  /\ UNCHANGED callVars
  /\ UNCHANGED cultureVars
  /\ UNCHANGED managerVars
  /\ UNCHANGED fanoutVars

\* The executor throws: the catch block logs the error and throws it again.
PnlExecuteThrows ==
  /\ pnl.pc = "executing"
  /\ pnl' = [pnl EXCEPT !.pc = "rejected", !.thrown = "ExecutorError",
                        !.rejection = "ExecutorError"]
  /\ UNCHANGED <<pluralCall, intentCall, inputLanguage, inputText, memoryByLanguage>>
  /\ UNCHANGED domainVars
  /\ UNCHANGED callVars
  /\ UNCHANGED cultureVars
  /\ UNCHANGED managerVars
  /\ UNCHANGED fanoutVars

\* The executor returns result: formatCulturalResponse is called; its three
\* formatting steps return the content as it is.
PnlExecuteReturns(result) ==
  /\ pnl.pc = "executing"
  /\ pnl' = startStage([pnl EXCEPT !.pc = "adapting", !.response = result], "adapt")
  /\ UNCHANGED <<pluralCall, intentCall, inputLanguage, inputText, memoryByLanguage>>
  /\ UNCHANGED domainVars
  /\ UNCHANGED callVars
  /\ UNCHANGED cultureVars
  /\ UNCHANGED managerVars
  /\ UNCHANGED fanoutVars

\* The entry storePolyglotMemory builds (without its id, timestamp and tags).
memoryEntry(input, response, language, culturalContext) ==
  [language |-> language,
   originalContent |-> input,
   translations |-> (language :> response),
   culturalNotes |-> IF culturalContext.businessEtiquette # None
                     THEN culturalContext.businessEtiquette.communicationStyle
                     ELSE None]

\* if (!has(language)) set(language, []); get(language).push(entry)
memoryPush(memory, language, entry) ==
  IF language \in DOMAIN memory
  THEN [memory EXCEPT ![language] = Append(@, entry)]
  ELSE (language :> <<entry>>) @@ memory

\* The response is formatted: storePolyglotMemory appends the entry to the log of
\* the language and calls addMemory (lines 246-264).
PnlFormatted ==
  /\ pnl.pc = "adapting"
  /\ pnl' = startStage([pnl EXCEPT !.pc = "storing"], "store")
  /\ memoryByLanguage' =
       memoryPush(memoryByLanguage, pnl.detectedLanguage,
                  memoryEntry(pnl.input, pnl.response, pnl.detectedLanguage,
                              pnl.culturalContext))
  /\ UNCHANGED <<pluralCall, intentCall, inputLanguage, inputText>>
  /\ UNCHANGED domainVars
  /\ UNCHANGED callVars
  /\ UNCHANGED cultureVars
  /\ UNCHANGED managerVars
  /\ UNCHANGED fanoutVars

\* addMemory rejects: the catch block logs the error and throws it again.
PnlStoreThrows ==
  /\ pnl.pc = "storing"
  /\ pnl' = [pnl EXCEPT !.pc = "rejected", !.thrown = "MemoryError",
                        !.rejection = "MemoryError"]
  /\ UNCHANGED <<pluralCall, intentCall, inputLanguage, inputText, memoryByLanguage>>
  /\ UNCHANGED domainVars
  /\ UNCHANGED callVars
  /\ UNCHANGED cultureVars
  /\ UNCHANGED managerVars
  /\ UNCHANGED fanoutVars

\* addMemory resolves: the call returns { response, language, culturalContext,
\* confidence }.
PnlStored ==
  /\ pnl.pc = "storing"
  /\ pnl' = [pnl EXCEPT !.pc = "resolved", !.finished = Len(pnl.stages),
                        !.result = [response |-> pnl.response,
                                    language |-> pnl.detectedLanguage,
                                    culturalContext |-> pnl.culturalContext,
                                    confidence |-> pnl.command.confidence]]
  /\ UNCHANGED <<pluralCall, intentCall, inputLanguage, inputText, memoryByLanguage>>
  /\ UNCHANGED domainVars
  /\ UNCHANGED callVars
  /\ UNCHANGED cultureVars
  /\ UNCHANGED managerVars
  /\ UNCHANGED fanoutVars

InitPipeline ==
  /\ InitState
  /\ inputLanguage = "en"
  /\ inputText = <<>>

NextPipeline ==
  \/ \E input \in PipelineInputs, explicitLanguage \in ExplicitLanguages :
       ProcessInNativeLanguage(input, explicitLanguage)
  \/ PnlDetected
  \/ PnlAnalyzed
  \/ PnlNormalized
  \/ PnlExtracted
  \/ PnlExecuteThrows
  \/ \E result \in ExecutorResults : PnlExecuteReturns(result)
  \/ PnlFormatted
  \/ PnlStoreThrows
  \/ PnlStored

SpecPipeline == InitPipeline /\ [][NextPipeline]_vars

(***************************************************************************)
(* Properties of processInNativeLanguage.                                  *)
(***************************************************************************)
\* C11: when the executor or any other stage throws, the call rejects with the
\* error that was thrown, and the per-language memory log is what it was when the
\* request was made: no entry of the request has been appended.
C11_RejectionLeavesNoEntry ==
  pnl.pc = "rejected" =>
    /\ pnl.rejection = pnl.thrown
    /\ memoryByLanguage = pnl.memoryBefore

\* The order of the stages the claim states: detection only without an explicit
\* language.
StageOrder(explicitLanguage) ==
  (IF explicitLanguage = Undefined THEN <<"detect">> ELSE <<>>)
  \o <<"analyze", "normalize", "extract", "execute", "adapt", "store">>

\* C12: the stages a request has started are, in order and each once, the first
\* stages of detect (only without an explicit language), analyze, normalize, extract,
\* execute, adapt, store; every stage but the last one started has finished; a
\* request that resolved ran them all, whether or not the low-confidence warning
\* was logged.
C12_StagesStrictlySequential ==
  pnl.pc # "idle" =>
    LET order == StageOrder(pnl.explicitLanguage)
    IN /\ Len(pnl.stages) <= Len(order)
       /\ \A i \in 1..Len(pnl.stages) : pnl.stages[i] = order[i]
       /\ pnl.finished >= Len(pnl.stages) - 1
       /\ pnl.pc = "resolved" => pnl.stages = order /\ pnl.finished = Len(order)
       /\ pnl.warned => pnl.stages[1] = "detect"

\* A request without an explicit language whose detection was of low confidence
\* (warning logged) and that resolved after all seven stages.
C12_Witness_WarnedAndResolved ==
  /\ pnl.pc = "resolved"
  /\ pnl.explicitLanguage = Undefined
  /\ pnl.warned
  /\ Len(pnl.stages) = 7
  /\ Len(pnl.log) = 2

(***************************************************************************)
(* normalize on a text, for the language under test.                       *)
(***************************************************************************)
\* The length of the texts normalized.
MaxChars == 3

\* The code units of the texts: space, ideographic space, A, a, I with dot above,
\* full-width exclamation mark, full-width A, full-width a.
NormalizeUnits == {32, 12288, 65, 97, 304, 65281, 65313, 65345}

NormalizeTexts == UNION {[1..n -> NormalizeUnits] : n \in 0..MaxChars}

Normalize(text) ==
  /\ normalizeCall' = [language |-> inputLanguage, text |-> text,
                       result |-> normalize(text, inputLanguage)]
  /\ UNCHANGED <<pluralCall, intentCall, inputLanguage, inputText, translateCalls>>
  /\ UNCHANGED domainVars
  /\ UNCHANGED cultureVars
  /\ UNCHANGED managerVars
  /\ UNCHANGED fanoutVars
  /\ UNCHANGED pipelineVars

\* The text under test is any text over the code units.
InitNormalize ==
  /\ InitState
  /\ inputLanguage \in SupportedLanguage
  /\ inputText \in NormalizeTexts

NextNormalize == Normalize(inputText)

SpecNormalize == InitNormalize /\ [][NextNormalize]_vars

\* C17: normalizing the result of normalize(x, L) again, for the same language,
\* gives the same text.
C17_NormalizeIdempotent ==
  normalizeCall # None =>
    normalize(normalizeCall.result, normalizeCall.language) = normalizeCall.result

\* A Japanese text with white space at both ends and a full-width letter: both the
\* trim and the fold changed it.
C17_Witness_TrimmedAndFolded ==
  /\ normalizeCall # None
  /\ normalizeCall.language = "ja"
  /\ normalizeCall.text = <<12288, 65313, 32>>
  /\ normalizeCall.result = <<65>>

(***************************************************************************)
(* analyze() on texts with formality markers, for the language under test. *)
(***************************************************************************)
\* hey, Hi, this, please, esteemed, ты, Вы, です, 様
FormalityWords ==
  {<<104,101,121>>, <<72,105>>, <<116,104,105,115>>, <<112,108,101,97,115,101>>,
   <<101,115,116,101,101,109,101,100>>, <<1090,1099>>, <<1042,1099>>,
   <<12391,12377>>, <<27096>>}

FormalityTexts == TextsOf(FormalityWords, MaxWords)

\* The text under test is any text of the formality corpus.
InitFormality ==
  /\ InitState
  /\ inputLanguage \in SupportedLanguage
  /\ inputText \in FormalityTexts

NextFormality == Analyze(inputText, AnalyzeOptions[1])

SpecFormality == InitFormality /\ [][NextFormality]_vars

\* The number of distinct markers of a tier that the text contains, whatever the
\* case of its letters.
distinctMarkers(text, markers) ==
  Cardinality({markers[k] : k \in {j \in 1..Len(markers) : includes(toLowerCase(text), markers[j])}})

MaxCalls == 2

\* The target languages of the translate calls.
TargetLanguages == {"zh-cn", "zh-tw"}

\* translate(text, context) is called, cached being what the cache check finds: a
\* hit returns the cached text; otherwise performTranslation is called and awaited.
TranslateCalled(text, targetLanguage, cached) ==
  /\ Len(translateCalls.pending) < MaxCalls
  /\ translateCalls' =
       IF cached # None
       THEN [translateCalls EXCEPT !.last = [text |-> text, targetLanguage |-> targetLanguage,
                                             result |-> cached, hit |-> TRUE]]
       ELSE [translateCalls EXCEPT !.pending =
               Append(@, [text |-> text, targetLanguage |-> targetLanguage,
                          translated |-> performTranslation(text, targetLanguage)])]
  /\ UNCHANGED <<pluralCall, intentCall, inputLanguage, inputText, normalizeCall>>
  /\ UNCHANGED domainVars
  /\ UNCHANGED pipelineVars
  /\ UNCHANGED cultureVars
  /\ UNCHANGED managerVars
  /\ UNCHANGED fanoutVars

Translate(text, targetLanguage) ==
  TranslateCalled(text, targetLanguage,
                  cachedTranslation(translationCache, text, targetLanguage))

\* performTranslation of the c-th call in progress has resolved: translate writes
\* the cache and returns the translation.
TranslateReturns(c) ==
  /\ c \in 1..Len(translateCalls.pending)
  /\ LET call == translateCalls.pending[c]
     IN /\ translationCache' = translationCacheSet(translationCache, call.text,
                                                   call.targetLanguage, call.translated)
        /\ translatedSinceClear' = translatedSinceClear \cup {call.text}
        /\ translateCalls' =
             [pending |-> [i \in 1..(Len(translateCalls.pending) - 1) |->
                             IF i < c THEN translateCalls.pending[i]
                             ELSE translateCalls.pending[i + 1]],
              last |-> [text |-> call.text, targetLanguage |-> call.targetLanguage,
                        result |-> call.translated, hit |-> FALSE]]
  /\ UNCHANGED <<detectionCache, detectCall, firstDetection, detectedSinceClear>>
  /\ UNCHANGED <<pluralCall, intentCall, inputLanguage, inputText, normalizeCall>>
  /\ UNCHANGED domainVars
  /\ UNCHANGED pipelineVars
  /\ UNCHANGED cultureVars
  /\ UNCHANGED fanoutVars

RECURSIVE SumLengths(_, _)
SumLengths(langMap, languages) ==
  IF languages = {} THEN 0
  ELSE LET l == CHOOSE l \in languages : TRUE
       IN Len(langMap[l]) * 2 + SumLengths(langMap, languages \ {l})

RECURSIVE SumSizes(_, _)
SumSizes(cache, texts) ==
  IF texts = {} THEN 0
  ELSE LET t == CHOOSE t \in texts : TRUE
       IN SumLengths(cache[t], DOMAIN cache[t]) + SumSizes(cache, texts \ {t})

\* getCacheStats() on the two caches.
getCacheStats(translations, detections) ==
  [translationEntries |-> Cardinality(DOMAIN translations),
   detectionEntries |-> Cardinality(DOMAIN detections),
   totalSize |-> SumSizes(translations, DOMAIN translations)]

\* The text under test of the detections is 'negotiation ok', one of the texts
\* translated.
InitCache ==
  /\ InitState
  /\ inputLanguage = "en"
  /\ inputText \in BaseResponses \ {<<>>}

NextCache ==
  \/ Detect(inputText)
  \/ \E text \in BaseResponses, targetLanguage \in TargetLanguages :
       Translate(text, targetLanguage)
  \/ \E c \in 1..MaxCalls : TranslateReturns(c)
  \/ ClearCache

SpecCache == InitCache /\ [][NextCache]_vars

\* The translation the claim states: '[TAG] ' followed by the source text.
tagged(text, targetLanguage) ==
  <<91>> \o getLanguagePrefix(targetLanguage) \o <<93, 32>> \o text

\* C19: translate returns '[TAG] text' for the tag of the target language, from the
\* cache as when computed, so that a cache hit returns what the computation gives;
\* the tags of two different languages differ, and two different pairs of source
\* text and target language never have the same translation.
C19_TranslationIsTaggedSource ==
  /\ translateCalls.last # None =>
       /\ translateCalls.last.result =
            tagged(translateCalls.last.text, translateCalls.last.targetLanguage)
       /\ translateCalls.last.result =
            performTranslation(translateCalls.last.text, translateCalls.last.targetLanguage)
  /\ \A l1, l2 \in SupportedLanguage :
       l1 # l2 => getLanguagePrefix(l1) # getLanguagePrefix(l2)
  /\ \A t1, t2 \in BaseResponses : \A l1, l2 \in SupportedLanguage :
       tagged(t1, l1) = tagged(t2, l2) => (t1 = t2 /\ l1 = l2)

\* A translation into ZH-TW served from the cache while the cache also holds the
\* ZH-CN translation of the same text.
C19_Witness_HitBesideOtherLanguage ==
  /\ translateCalls.last # None
  /\ translateCalls.last.hit
  /\ translateCalls.last.targetLanguage = "zh-tw"
  /\ translateCalls.last.text # <<>>
  /\ translateCalls.last.text \in DOMAIN translationCache
  /\ DOMAIN translationCache[translateCalls.last.text] = {"zh-cn", "zh-tw"}

cacheStats == getCacheStats(translationCache, detectionCache)

\* C20: only clearCache removes cache entries. At every moment detectionEntries is
\* the number of distinct texts passed to detectLanguage since the last clear and
\* translationEntries the number of distinct source texts translated since then;
\* a step that is not a clear decreases neither, and right after a clear
\* translationEntries, detectionEntries and totalSize are all 0.
C20_OnlyClearRemovesEntries ==
  /\ [](/\ cacheStats.detectionEntries = Cardinality(detectedSinceClear)
        /\ cacheStats.translationEntries = Cardinality(translatedSinceClear))
  /\ [][IF ClearCache
        THEN /\ cacheStats'.translationEntries = 0
             /\ cacheStats'.detectionEntries = 0
             /\ cacheStats'.totalSize = 0
        ELSE /\ cacheStats'.detectionEntries >= cacheStats.detectionEntries
             /\ cacheStats'.translationEntries >= cacheStats.translationEntries
             /\ DOMAIN detectionCache \subseteq DOMAIN detectionCache'
             /\ DOMAIN translationCache \subseteq DOMAIN translationCache']_vars

\* After a clear the text detected before it has been detected again, and both
\* source texts have translations in the cache, one of them served from it.
C20_Witness_RefilledAfterClear ==
  /\ detectCall # None
  /\ detectCall.repeated
  /\ ~detectCall.hit
  /\ cacheStats.detectionEntries = 1
  /\ cacheStats.translationEntries = 2
  /\ cacheStats.totalSize > 0
  /\ translateCalls.last # None
  /\ translateCalls.last.hit

(***************************************************************************)
(* Properties of the multi-language fan-out.                               *)
(***************************************************************************)
\* The languages of a list.
languagesOf(languages) == {languages[i] : i \in 1..Len(languages)}

\* The translate calls that have returned to their caller.
returnedTranslations == {k \in 1..Len(tasks) : tasks[k].pc \in {"translated", "adapting", "done"}}

\* C8: under every interleaving of the concurrent translate calls for one source
\* text, the translation cache holds, under that text, the value returned to the
\* caller of every call that has returned; every entry of the cache is the
\* translation of its text into its language; and once all calls have completed the
\* per-text map has exactly one entry for every target language.
C8_NoLostOrTornCacheEntry ==
  /\ \A k \in returnedTranslations :
       /\ gmr.baseResponse \in DOMAIN translationCache
       /\ tasks[k].language \in DOMAIN translationCache[gmr.baseResponse]
       /\ translationCache[gmr.baseResponse][tasks[k].language] = tasks[k].translated
  /\ \A text \in DOMAIN translationCache :
       \A language \in DOMAIN translationCache[text] :
         translationCache[text][language] = performTranslation(text, language)
  /\ (gmr.pc = "resolved" /\ tasks # <<>>) =>
       DOMAIN translationCache[gmr.baseResponse] = {tasks[k].language : k \in 1..Len(tasks)}

\* Three concurrent translations into three languages have all completed, the one
\* started first completing last, and the cache holds the three entries.
C8_Witness_ThreeConcurrentWrites ==
  /\ gmr.pc = "resolved"
  /\ Len(tasks) = 3
  /\ DOMAIN translationCache[gmr.baseResponse] = {"en", "ru", "ja"}
  /\ gmr.responses[Len(gmr.responses)].key = tasks[1].language

\* C9: no translation is started before the executor has returned the base
\* response, which is the first entry stored; the call resolves only when every
\* translation it started has completed; and the map it returns holds the base
\* response under the primary language and, under every other requested language,
\* the translation of the base response into it, whatever the order in which the
\* translations completed.
C9_ResolvesAfterEveryTranslation ==
  /\ gmr.pc \in {"idle", "executing", "rejected"} => tasks = <<>>
  /\ gmr.pc \in {"translating", "resolved"} =>
       gmr.responses[1] = [key |-> primaryLanguage, value |-> gmr.baseResponse]
  /\ gmr.pc = "resolved" =>
       /\ \A k \in 1..Len(tasks) : tasks[k].pc = "done"
       /\ \A k \in 1..Len(tasks) :
            valueOf(gmr.responses, tasks[k].language) = tasks[k].translated
       /\ keysOf(gmr.responses) = {primaryLanguage} \cup languagesOf(gmr.languages)
       /\ \A language \in keysOf(gmr.responses) :
            valueOf(gmr.responses, language) =
              IF language = primaryLanguage THEN gmr.baseResponse
              ELSE performTranslation(gmr.baseResponse, language)

\* A call for [RU, JA] on an English agent has resolved, the translation into
\* Japanese having completed before the one into Russian.
C9_Witness_CompletedOutOfOrder ==
  /\ gmr.pc = "resolved"
  /\ primaryLanguage = "en"
  /\ gmr.languages = <<"ru", "ja">>
  /\ [i \in 1..Len(gmr.responses) |-> gmr.responses[i].key] = <<"en", "ja", "ru">>

\* C10: when the primary language is one of the requested languages, the key set of
\* the returned map is exactly the set of requested languages, the primary
\* language's entry is the executor's base response, and every other entry is
\* non-empty and differs from the base response.
C10_KeysAreRequestedLanguages ==
  (gmr.pc = "resolved" /\ primaryLanguage \in languagesOf(gmr.languages)) =>
    /\ keysOf(gmr.responses) = languagesOf(gmr.languages)
    /\ valueOf(gmr.responses, primaryLanguage) = gmr.baseResponse
    /\ \A language \in keysOf(gmr.responses) \ {primaryLanguage} :
         /\ valueOf(gmr.responses, language) # <<>>
         /\ valueOf(gmr.responses, language) # gmr.baseResponse

\* A call for [EN, RU, JA] on an English agent has resolved with three keys, the base
\* response being the empty string.
C10_Witness_ThreeKeys ==
  /\ gmr.pc = "resolved"
  /\ primaryLanguage = "en"
  /\ gmr.languages = <<"en", "ru", "ja">>
  /\ gmr.baseResponse = <<>>
  /\ Cardinality(keysOf(gmr.responses)) = 3

(***************************************************************************)
(* WorkflowAggregate: a workflow, its steps and the calls of its methods.  *)
(* A method that throws leaves the aggregate as its statements before the  *)
(* throw left it; the call and its error are recorded in workflowCall.     *)
(***************************************************************************)
MaxSteps == 2

\* `step-${Date.now()}-${random}`: the ids addStep generates. Two calls in the same
\* millisecond that draw the same random suffix generate the same id.
StepIds == {<<"step", 0, 1>>, <<"step", 0, 2>>}

\* `step-${total}`: the id addDDDPhases passes as the dependency of the next phase.
stepReference(total) == <<"step", total>>

\* The step ids a caller passes to startStep and completeStep.
CallerStepIds == StepIds \cup {stepReference(1)}

\* The dependencies a caller passes to addStep: none, or one step id.
DependencyLists == {<<>>} \cup {<<d>> : d \in CallerStepIds}

\* WorkflowAggregate.create(name, description): a draft without steps, holding its
\* WorkflowCreated event.
create ==
  [status |-> "draft", steps |-> <<>>, completedSteps |-> {}, version |-> 0,
   domainEvents |-> <<[eventType |-> "WorkflowCreated", stepId |-> None]>>]

\* steps.find(s => s.id === stepId): the position of the first such step, 0 if none.
findStep(steps, stepId) ==
  IF \E i \in 1..Len(steps) : steps[i].id = stepId
  THEN CHOOSE i \in 1..Len(steps) :
         /\ steps[i].id = stepId
         /\ \A j \in 1..(i - 1) : steps[j].id # stepId
  ELSE 0

\* A variant of canStart that ignores the dependencies.
canStartAlways(step, completedSteps) == TRUE

\* WorkflowStep.canStart: every dependency is in the set of completed steps.
canStart(step, completedSteps) ==
  \A k \in 1..Len(step.dependencies) : step.dependencies[k] \in completedSteps

\* A variant of the completion test that is satisfied by one completed step.
someCompleted(steps) == \E i \in 1..Len(steps) : steps[i].status = "completed"

\* steps.every(s => s.status === 'completed')
allCompleted(steps) == \A i \in 1..Len(steps) : steps[i].status = "completed"

\* The outcome of a method: the aggregate it leaves and the error it throws.
Outcome(w, error) == [workflow |-> w, error |-> error]

\* addStep(name, description, agentType, requiredCapabilities, dependencies);
\* english tells whether name and description have an English text, stepId is the id
\* generated.
addStep(w, english, dependencies, stepId) ==
  IF w.status # "draft"
  THEN Outcome(w, "Steps can only be added to draft workflows")
  ELSE IF ~english
  THEN Outcome(w, "English translation is required for multilingual strings")
  ELSE Outcome([w EXCEPT !.steps = Append(@, [id |-> stepId, status |-> "pending",
                                               dependencies |-> dependencies]),
                         !.version = @ + 1],
               "none")

\* A variant of activate that accepts a workflow without steps.
activateWithoutSteps(w) ==
  IF w.status # "draft"
  THEN Outcome(w, "Only draft workflows can be activated")
  ELSE Outcome([w EXCEPT !.status = "active", !.version = @ + 1], "none")

\* activate()
activate(w) ==
  IF w.status # "draft"
  THEN Outcome(w, "Only draft workflows can be activated")
  ELSE IF Len(w.steps) = 0
  THEN Outcome(w, "Cannot activate workflow without steps")
  ELSE Outcome([w EXCEPT !.status = "active", !.version = @ + 1], "none")

\* startStep(stepId)
startStep(w, stepId) ==
  LET i == findStep(w.steps, stepId)
  IN IF i = 0
     THEN Outcome(w, "Step not found")
     ELSE IF ~canStart(w.steps[i], w.completedSteps)
     THEN Outcome(w, "Step dependencies not met")
     ELSE IF w.steps[i].status # "pending"
     THEN Outcome(w, "Step can only be started from pending status")
     ELSE Outcome([w EXCEPT !.steps[i].status = "in-progress", !.version = @ + 1],
                  "none")

\* completeStep(stepId)
completeStep(w, stepId) ==
  LET i == findStep(w.steps, stepId)
  IN IF i = 0
     THEN Outcome(w, "Step not found")
     ELSE IF w.steps[i].status # "in-progress"
     THEN Outcome(w, "Step can only be completed from in-progress status")
     ELSE LET steps == [w.steps EXCEPT ![i].status = "completed"]
          IN Outcome([w EXCEPT !.steps = steps,
                               !.completedSteps = @ \cup {stepId},
                               !.domainEvents =
                                  Append(@, [eventType |-> "WorkflowStepCompleted",
                                             stepId |-> stepId]),
                               !.status = IF allCompleted(steps) THEN "completed" ELSE @,
                               !.version = @ + 1],
                     "none")

\* getNextSteps(): the pending steps whose dependencies are completed.
getNextSteps(w) ==
  SelectSeq(w.steps, LAMBDA step : step.status = "pending" /\ canStart(step, w.completedSteps))

\* A method of the aggregate has been called with outcome o.
Called(method, stepId, o) ==
  /\ workflow' = o.workflow
  /\ workflowCall' = [method |-> method, stepId |-> stepId, error |-> o.error]
  /\ UNCHANGED <<pluralCall, intentCall, inputLanguage, inputText>>
  /\ UNCHANGED productVars
  /\ UNCHANGED serviceVars
  /\ UNCHANGED pipelineVars
  /\ UNCHANGED callVars
  /\ UNCHANGED cultureVars
  /\ UNCHANGED managerVars
  /\ UNCHANGED fanoutVars

Create ==
  /\ workflow = None
  /\ Called("create", None, Outcome(create, "none"))

AddStep(english, dependencies, stepId) ==
  /\ workflow # None
  /\ Len(workflow.steps) < MaxSteps
  /\ Called("addStep", None, addStep(workflow, english, dependencies, stepId))

\* addStep on a workflow that has as many steps as the model follows: only the
\* rejection of a workflow that is not a draft.
AddStepToFull ==
  /\ workflow # None
  /\ Len(workflow.steps) >= MaxSteps
  /\ workflow.status # "draft"
  /\ Called("addStep", None, addStep(workflow, TRUE, <<>>, <<"step", 0, 1>>))

Activate ==
  /\ workflow # None
  /\ Called("activate", None, activate(workflow))

StartStep(stepId) ==
  /\ workflow # None
  /\ Called("startStep", stepId, startStep(workflow, stepId))

CompleteStep(stepId) ==
  /\ workflow # None
  /\ Called("completeStep", stepId, completeStep(workflow, stepId))

InitWorkflow ==
  /\ InitState
  /\ inputLanguage = "en"
  /\ inputText = <<>>

NextWorkflow ==
  \/ Create
  \/ \E english \in BOOLEAN, dependencies \in DependencyLists, stepId \in StepIds :
       AddStep(english, dependencies, stepId)
  \/ AddStepToFull
  \/ Activate
  \/ \E stepId \in CallerStepIds : StartStep(stepId)
  \/ \E stepId \in CallerStepIds : CompleteStep(stepId)

SpecWorkflow == InitWorkflow /\ [][NextWorkflow]_vars

(***************************************************************************)
(* DDDDevelopmentService.startDevelopment: the workflow of the four DDD    *)
(* phases, and the calls a caller then makes on it.                        *)
(***************************************************************************)
\* The phases addDDDPhases adds, in order.
Phases == <<"discovery", "modeling", "implementation", "testing">>

\* The ids generated for the steps of the phases: one of four values each, all
\* different.
PhaseStepIds == {<<"step", 0, r>> : r \in 1..Len(Phases)}

PhaseStepIdLists ==
  {ids \in [1..Len(Phases) -> PhaseStepIds] :
     \A i, j \in 1..Len(Phases) : i # j => ids[i] # ids[j]}

\* The step ids the caller of the phase workflow passes.
PhaseCallerStepIds == PhaseStepIds \cup {stepReference(k) : k \in 1..Len(Phases)}

\* The loop of addDDDPhases from phase k on: each phase is added with the step
\* reference computed after the previous addStep as its only dependency.
RECURSIVE addDDDPhasesFrom(_, _, _, _)
addDDDPhasesFrom(w, stepIds, k, previousStep) ==
  IF k > Len(Phases) THEN w
  ELSE LET added == addStep(w, TRUE,
                            IF previousStep = None THEN <<>> ELSE <<previousStep>>,
                            stepIds[k]).workflow
       IN addDDDPhasesFrom(added, stepIds, k + 1, stepReference(Len(added.steps)))

addDDDPhases(w, stepIds) == addDDDPhasesFrom(w, stepIds, 1, None)

\* createDDDWorkflow: create, addDDDPhases, activate; stepIds are the ids generated
\* for the four steps.
createDDDWorkflow(stepIds) == activate(addDDDPhases(create, stepIds)).workflow

\* startDevelopment(projectName, description, options): the workflow is created and
\* the discovery session awaited; the caller gets the workflow when the session
\* resolves, and nothing when it rejects.
StartDevelopment(stepIds, resolves) ==
  /\ workflow = None
  /\ Called("startDevelopment", None,
            IF resolves THEN Outcome(createDDDWorkflow(stepIds), "none")
            ELSE Outcome(None, "rejected"))

InitPhases ==
  /\ InitState
  /\ inputLanguage = "en"
  /\ inputText = <<>>

NextPhases ==
  \/ \E stepIds \in PhaseStepIdLists, resolves \in BOOLEAN :
       StartDevelopment(stepIds, resolves)
  \/ \E stepId \in PhaseCallerStepIds : StartStep(stepId)
  \/ \E stepId \in PhaseCallerStepIds : CompleteStep(stepId)

SpecPhases == InitPhases /\ [][NextPhases]_vars

\* C27: in the workflow startDevelopment builds, once the step of a phase is
\* completed the step of the next phase has its dependencies satisfied and is one of
\* getNextSteps(), so that the phases can be run in order up to COMPLETED.
C27_NextPhaseBecomesAvailable ==
  (workflow # None /\ Len(workflow.steps) = Len(Phases)) =>
    \A k \in 1..(Len(Phases) - 1) :
      (workflow.steps[k].status = "completed" /\ workflow.steps[k + 1].status = "pending") =>
        \E n \in 1..Len(getNextSteps(workflow)) :
          getNextSteps(workflow)[n] = workflow.steps[k + 1]

(***************************************************************************)
(* The Product aggregate of the example handlers: its two methods, called  *)
(* directly or by UpdateProductHandler, and the status the handler sets.   *)
(* The repository holds the product the create handler saved and returns   *)
(* that object.                                                            *)
(***************************************************************************)
MaxPrice == 2
MaxInventory == 2
MaxEvents == 2

\* The prices and quantities a caller passes.
Prices == (0 - 1)..MaxPrice
Quantities == (0 - MaxInventory)..MaxInventory

\* The updates of an UpdateProduct command: each of price, inventory and status is
\* given or not.
NotGiven == [given |-> FALSE, value |-> 0]

Given(values) == {[given |-> TRUE, value |-> v] : v \in values}

ProductUpdates ==
  [price : Given(Prices) \cup {NotGiven},
   inventory : Given(Quantities) \cup {NotGiven},
   status : {"active", "discontinued", Undefined}]

\* The outcome of a call on the product: the product it leaves, the error thrown or
\* returned.
ProductOutcome(p, error) == [product |-> p, error |-> error]

\* Product.updatePrice(newPrice)
updatePrice(p, newPrice) ==
  IF newPrice <= 0
  THEN ProductOutcome(p, "Price must be positive")
  ELSE IF p.status = "discontinued"
  THEN ProductOutcome(p, "Cannot update price of discontinued product")
  ELSE ProductOutcome([p EXCEPT !.price = newPrice,
                                !.domainEvents = Append(@, "PriceUpdated")],
                      "none")

\* Product.adjustInventory(quantity, reason)
adjustInventory(p, quantity) ==
  IF p.inventory + quantity < 0
  THEN ProductOutcome(p, "Inventory cannot be negative")
  ELSE ProductOutcome([p EXCEPT !.inventory = @ + quantity,
                                !.domainEvents = Append(@, "InventoryAdjusted")],
                      "none")

\* markChangesAsCommitted(), which publishEvents calls.
markChangesAsCommitted(p) == [p EXCEPT !.domainEvents = <<>>]

\* CreateProductHandler.handle: the command is validated, the product created,
\* saved, and its creation event published.
createProduct(price, inventory) ==
  IF price <= 0
  THEN ProductOutcome(None, "Product price must be positive")
  ELSE IF inventory < 0
  THEN ProductOutcome(None, "Product inventory cannot be negative")
  ELSE ProductOutcome(markChangesAsCommitted(
                        [price |-> price, inventory |-> inventory, status |-> "active",
                         domainEvents |-> <<"ProductCreated">>]),
                      "none")

\* The three updates of UpdateProductHandler.handle in turn, each on what the
\* previous one left; the first error ends the operation.
applyPrice(p, updates) ==
  IF updates.price.given THEN updatePrice(p, updates.price.value)
  ELSE ProductOutcome(p, "none")

applyInventory(o, updates) ==
  IF o.error # "none" \/ ~updates.inventory.given THEN o
  ELSE adjustInventory(o.product, updates.inventory.value)

applyStatus(o, updates) ==
  IF o.error # "none" \/ updates.status = Undefined THEN o
  ELSE ProductOutcome([o.product EXCEPT !.status = updates.status,
                                        !.domainEvents = Append(@, "ProductStatusChanged")],
                      "none")

\* UpdateProductHandler.handle: the product is found, the updates applied, and
\* on success the product saved and its events published; an error is caught and
\* returned as the error of the result.
handleUpdate(p, updates) ==
  LET o == applyStatus(applyInventory(applyPrice(p, updates), updates), updates)
  IN IF o.error = "none" THEN ProductOutcome(markChangesAsCommitted(o.product), "none")
     ELSE o

\* A method or a handler has been called on the product with outcome o.
ProductCalled(method, argument, o) ==
  /\ product' = o.product
  /\ productCall' = [method |-> method, argument |-> argument, error |-> o.error]
  /\ UNCHANGED <<pluralCall, intentCall, inputLanguage, inputText>>
  /\ UNCHANGED workflowVars
  /\ UNCHANGED serviceVars
  /\ UNCHANGED pipelineVars
  /\ UNCHANGED callVars
  /\ UNCHANGED cultureVars
  /\ UNCHANGED managerVars
  /\ UNCHANGED fanoutVars

CreateProduct(price, inventory) ==
  /\ product = None
  /\ ProductCalled("CreateProduct", [price |-> price, inventory |-> inventory],
                   createProduct(price, inventory))

UpdatePrice(newPrice) ==
  /\ product # None
  /\ Len(product.domainEvents) < MaxEvents
  /\ ProductCalled("updatePrice", newPrice, updatePrice(product, newPrice))

AdjustInventory(quantity) ==
  /\ product # None
  /\ Len(product.domainEvents) < MaxEvents
  /\ product.inventory + quantity <= MaxInventory
  /\ ProductCalled("adjustInventory", quantity, adjustInventory(product, quantity))

UpdateProduct(updates) ==
  /\ product # None
  /\ Len(product.domainEvents) < MaxEvents
  /\ product.inventory + updates.inventory.value <= MaxInventory
  /\ ProductCalled("UpdateProduct", updates, handleUpdate(product, updates))

\* UpdateProductHandler.handle for a product the repository does not hold.
UpdateProductNotFound ==
  /\ product = None
  /\ ProductCalled("UpdateProduct", None, ProductOutcome(None, "Product not found"))

InitProduct ==
  /\ InitState
  /\ inputLanguage = "en"
  /\ inputText = <<>>

NextProduct ==
  \/ \E price \in Prices, inventory \in Quantities : CreateProduct(price, inventory)
  \/ \E newPrice \in Prices : UpdatePrice(newPrice)
  \/ \E quantity \in Quantities : AdjustInventory(quantity)
  \/ \E updates \in ProductUpdates : UpdateProduct(updates)
  \/ UpdateProductNotFound

SpecProduct == InitProduct /\ [][NextProduct]_vars

\* C22: a product created with price > 0 and inventory >= 0 keeps price > 0 and
\* inventory >= 0 under every sequence of updatePrice, adjustInventory and status
\* updates; while its status is 'discontinued' neither its price nor its inventory
\* changes; and a call that is rejected leaves the product as it was.
C22_ProductInvariantsHold ==
  /\ [](product # None => (product.price > 0 /\ product.inventory >= 0))
  /\ [][product # None =>
          /\ product.status = "discontinued" =>
               /\ product'.price = product.price
               /\ product'.inventory = product.inventory
          /\ productCall'.error # "none" => product' = product]_vars

(***************************************************************************)
(* CommandBus and DDDDevelopmentService: a list of commands executed in    *)
(* sequence, through the bus or through the service. A step is the         *)
(* execution of one command, which the loop awaits.                        *)
(***************************************************************************)
MaxCommands == 2

\* The ids EntityId.generate gives to the bounded contexts created.
ContextIds == {"context-1", "context-2"}

\* The commands of the lists: the three command types the service registers, a
\* type a custom handler may be registered for, whose handler returns a success,
\* returns a failure or throws, and a type without handler.
Commands ==
  {[type |-> "CreateBoundedContext", english |-> e] : e \in BOOLEAN}
    \cup {[type |-> "AddAggregate", contextId |-> c] : c \in ContextIds}
    \cup {[type |-> "GenerateCode", contextId |-> "context-1"]}
    \cup {[type |-> "Custom", handle |-> h] : h \in {"succeeds", "fails", "throws"}}
    \cup {[type |-> "Unknown"]}

CommandLists == UNION {[1..n -> Commands] : n \in 0..MaxCommands}

\* handlers.set(commandType, handler): a type already registered keeps its place.
register(registered, commandType) ==
  IF \E i \in 1..Len(registered) : registered[i] = commandType THEN registered
  ELSE Append(registered, commandType)

\* The loop of execute over the handlers: the first whose canHandle accepts the
\* command, undefined if there is none. Each canHandle compares command.type with the
\* type of its handler.
findHandler(registered, command) ==
  IF \E i \in 1..Len(registered) : registered[i] = command.type
  THEN command.type
  ELSE Undefined

\* The result of a command, and the bounded contexts its handler leaves.
Handled(contexts, success, error) ==
  [contexts |-> contexts, success |-> success, error |-> error]

\* handleCreateBoundedContext: createBoundedContext throws for a name without
\* English text, and otherwise stores a context without aggregates under contextId.
handleCreateBoundedContext(contexts, command, contextId) ==
  IF ~command.english
  THEN Handled(contexts, FALSE, "English translation is required for multilingual strings")
  ELSE Handled((contextId :> [aggregates |-> 0]) @@ contexts, TRUE, "none")

\* handleAddAggregate: addAggregate throws for an unknown context, and otherwise
\* pushes the aggregate; a context is kept as the number of its aggregates.
handleAddAggregate(contexts, command) ==
  IF command.contextId \notin DOMAIN contexts
  THEN Handled(contexts, FALSE, "Bounded context not found")
  ELSE Handled([contexts EXCEPT ![command.contextId].aggregates = @ + 1], TRUE, "none")

\* handleGenerateCode: generateCode throws for an unknown context.
handleGenerateCode(contexts, command) ==
  IF command.contextId \notin DOMAIN contexts
  THEN Handled(contexts, FALSE, "Bounded context not found")
  ELSE Handled(contexts, TRUE, "none")

\* A custom handler: it returns a successful result, returns a failure, or throws,
\* and execute turns what it throws into a failure.
handleCustom(contexts, command) ==
  IF command.handle = "succeeds" THEN Handled(contexts, TRUE, "none")
  ELSE IF command.handle = "fails" THEN Handled(contexts, FALSE, "failed")
  ELSE Handled(contexts, FALSE, "thrown")

\* CommandBus.execute(command): the result, the bounded contexts left, and whether
\* the handle method of a handler was invoked.
execute(registered, contexts, command, contextId) ==
  LET handler == findHandler(registered, command)
      handled == IF handler = Undefined
                 THEN Handled(contexts, FALSE, "No handler registered for command")
                 ELSE IF handler = "CreateBoundedContext"
                 THEN handleCreateBoundedContext(contexts, command, contextId)
                 ELSE IF handler = "AddAggregate" THEN handleAddAggregate(contexts, command)
                 ELSE IF handler = "GenerateCode" THEN handleGenerateCode(contexts, command)
                 ELSE handleCustom(contexts, command)
  IN [contexts |-> handled.contexts,
      result |-> [success |-> handled.success, error |-> handled.error],
      invoked |-> handler # Undefined]

\* A variant of the loop that goes on after a failure.
neverStops(result) == FALSE

\* if (!result.success) break
stopsAfter(result) == ~result.success

\* registerCommandHandler('Custom', handler)
RegisterCommandHandler ==
  /\ handlers' = register(handlers, "Custom")
  /\ UNCHANGED <<boundedContexts, sequence>>
  /\ UNCHANGED <<pluralCall, intentCall, inputLanguage, inputText>>
  /\ UNCHANGED workflowVars
  /\ UNCHANGED productVars
  /\ UNCHANGED pipelineVars
  /\ UNCHANGED callVars
  /\ UNCHANGED cultureVars
  /\ UNCHANGED managerVars
  /\ UNCHANGED fanoutVars

\* executeSequence(commands) of the bus or executeCommandSequence(commands) of the
\* service is called: up to the first await, the execution of the first command; a
\* call with an empty list returns at once. before is a copy of the bounded contexts
\* at the call.
ExecuteCommandSequence(commands, via) ==
  /\ sequence.pc = "idle"
  /\ sequence' = [pc |-> IF commands = <<>> THEN "returned" ELSE "running",
                  via |-> via,
                  commands |-> commands,
                  results |-> <<>>,
                  invoked |-> <<>>,
                  before |-> boundedContexts]
  /\ UNCHANGED <<boundedContexts, handlers>>
  /\ UNCHANGED <<pluralCall, intentCall, inputLanguage, inputText>>
  /\ UNCHANGED workflowVars
  /\ UNCHANGED productVars
  /\ UNCHANGED pipelineVars
  /\ UNCHANGED callVars
  /\ UNCHANGED cultureVars
  /\ UNCHANGED managerVars
  /\ UNCHANGED fanoutVars

\* The execution of the next command has resolved with the outcome e: its result
\* is pushed; the loop ends after a failure and after the last command, and the call
\* then returns the results.
Executed1(e) ==
  LET i == Len(sequence.results) + 1
  IN /\ sequence.pc = "running"
     /\ boundedContexts' = e.contexts
     /\ sequence' = [sequence EXCEPT
                       !.results = Append(@, [of |-> i, success |-> e.result.success,
                                              error |-> e.result.error]),
                       !.invoked = IF e.invoked THEN Append(@, i) ELSE @,
                       !.pc = IF stopsAfter(e.result) \/ i = Len(sequence.commands)
                              THEN "returned" ELSE "running"]
     /\ UNCHANGED handlers
     /\ UNCHANGED <<pluralCall, intentCall, inputLanguage, inputText>>
     /\ UNCHANGED workflowVars
     /\ UNCHANGED productVars
     /\ UNCHANGED pipelineVars
     /\ UNCHANGED callVars
     /\ UNCHANGED cultureVars
     /\ UNCHANGED managerVars
     /\ UNCHANGED fanoutVars

ExecuteNext(contextId) ==
  /\ sequence.pc = "running"
  /\ Executed1(execute(handlers, boundedContexts,
                       sequence.commands[Len(sequence.results) + 1], contextId))

InitBus ==
  /\ InitState
  /\ inputLanguage = "en"
  /\ inputText = <<>>

NextBus ==
  \/ RegisterCommandHandler
  \/ \E commands \in CommandLists, via \in {"bus", "service"} :
       ExecuteCommandSequence(commands, via)
  \/ \E contextId \in ContextIds : ExecuteNext(contextId)

SpecBus == InitBus /\ [][NextBus]_vars

\* C26: the commands of a sequence are executed in list order, one at a time, and
\* the loop stops after the first unsuccessful result; a command without handler
\* and a handler that throws give a result {success: false} and never an exception.
\* The list returned holds the results of the first k+1 commands, k being the index
\* of the first failure, or of all the commands when none fails, and no handler of a
\* later command is invoked.
C26_SequenceStopsAtFirstFailure ==
  /\ sequence.pc \in {"idle", "running", "returned"}
  /\ sequence.pc # "idle" =>
       /\ Len(sequence.results) <= Len(sequence.commands)
       /\ \A i \in 1..Len(sequence.results) :
            /\ sequence.results[i].of = i
            /\ i < Len(sequence.results) => sequence.results[i].success
            /\ findHandler(handlers, sequence.commands[i]) = Undefined =>
                 /\ ~sequence.results[i].success
                 /\ \A n \in 1..Len(sequence.invoked) : sequence.invoked[n] # i
            /\ (sequence.commands[i].type = "Custom" /\ sequence.commands[i].handle = "throws") =>
                 ~sequence.results[i].success
       /\ \A n \in 1..Len(sequence.invoked) :
            /\ sequence.invoked[n] <= Len(sequence.results)
            /\ n > 1 => sequence.invoked[n - 1] < sequence.invoked[n]
       /\ sequence.pc = "running" =>
            /\ Len(sequence.results) < Len(sequence.commands)
            /\ \A i \in 1..Len(sequence.results) : sequence.results[i].success
       /\ sequence.pc = "returned" =>
            \/ /\ Len(sequence.results) = Len(sequence.commands)
               /\ \A i \in 1..Len(sequence.results) : sequence.results[i].success
            \/ /\ sequence.results # <<>>
               /\ ~sequence.results[Len(sequence.results)].success

\* A call for two commands has returned one result, the failure a throwing custom
\* handler was turned into; the handler of the second command was not invoked.
C26_Witness_StoppedAfterThrow ==
  /\ sequence.pc = "returned"
  /\ Len(sequence.commands) = 2
  /\ sequence.commands[1] = [type |-> "Custom", handle |-> "throws"]
  /\ sequence.commands[2].type = "CreateBoundedContext"
  /\ Len(sequence.results) = 1
  /\ sequence.results[1].error = "thrown"
  /\ sequence.invoked = <<1>>

\* C21: executeCommandSequence is all-or-nothing: when a command of the sequence
\* fails, the bounded contexts are as they were before the call, whatever the
\* commands before it changed.
C21_FailedSequenceLeavesNoChange ==
  (/\ sequence.pc = "returned"
   /\ sequence.via = "service"
   /\ sequence.results # <<>>
   /\ ~sequence.results[Len(sequence.results)].success) =>
     boundedContexts = sequence.before

(***************************************************************************)
(* Properties of the workflow aggregate.                                   *)
(***************************************************************************)
\* The steps of the workflow under test, none before it is created.
stepsOf(w) == IF w = None THEN <<>> ELSE w.steps

\* The steps without their statuses: ids and dependencies, in list order.
stepList(w) ==
  [i \in 1..Len(stepsOf(w)) |-> [id |-> stepsOf(w)[i].id,
                                 dependencies |-> stepsOf(w)[i].dependencies]]

\* Every dependency of the step is the id of a step in the completed set.
dependenciesCompleted(step, completed) ==
  {step.dependencies[k] : k \in 1..Len(step.dependencies)} \subseteq completed

\* The last call was of the method and succeeded.
succeeded(call, method) == call # None /\ call.method = method /\ call.error = "none"

\* The last call was of the method and threw.
rejected(call, method) == call # None /\ call.method = method /\ call.error # "none"

\* C23: a step's status only moves pending -> in-progress -> completed, a startStep
\* that succeeds finds its step pending and a completeStep that succeeds finds it
\* in-progress, and every step that is in-progress or completed has all its
\* dependencies in the completed set, as it had when it was started.
C23_StepsFollowTheirDependencies ==
  /\ [](\A i \in 1..Len(stepsOf(workflow)) :
          /\ workflow.steps[i].status \in {"pending", "in-progress", "completed"}
          /\ workflow.steps[i].status # "pending" =>
               dependenciesCompleted(workflow.steps[i], workflow.completedSteps))
  /\ [][/\ \A i \in 1..Len(stepsOf(workflow)) :
             LET before == workflow.steps[i].status
                 after == workflow'.steps[i].status
             IN /\ before # after =>
                     \/ /\ before = "pending"
                        /\ after = "in-progress"
                        /\ succeeded(workflowCall', "startStep")
                        /\ dependenciesCompleted(workflow.steps[i], workflow.completedSteps)
                     \/ /\ before = "in-progress"
                        /\ after = "completed"
                        /\ succeeded(workflowCall', "completeStep")
        /\ succeeded(workflowCall', "startStep") =>
             LET i == findStep(workflow.steps, workflowCall'.stepId)
             IN /\ i # 0
                /\ workflow.steps[i].status = "pending"
                /\ workflow'.steps[i].status = "in-progress"
        /\ succeeded(workflowCall', "completeStep") =>
             LET i == findStep(workflow.steps, workflowCall'.stepId)
             IN /\ i # 0
                /\ workflow.steps[i].status = "in-progress"
                /\ workflow'.steps[i].status = "completed"
        /\ (rejected(workflowCall', "startStep") \/ rejected(workflowCall', "completeStep")) =>
             workflow' = workflow]_vars

\* The second step depends on the first, has been started after it was completed
\* and is completed too; the last call, a startStep, was rejected.
C23_Witness_DependentStepCompleted ==
  /\ workflow # None
  /\ Len(workflow.steps) = 2
  /\ workflow.steps[1].id # workflow.steps[2].id
  /\ workflow.steps[2].dependencies = <<workflow.steps[1].id>>
  /\ workflow.steps[2].status = "completed"
  /\ rejected(workflowCall, "startStep")

\* C24: addStep succeeds only on a draft and activate only on a draft with at least
\* one step; a workflow that is not a draft has at least one step and its list of
\* steps no longer changes; a rejected addStep or activate leaves status, steps and
\* version as they were.
C24_StepsFixedOnceNotDraft ==
  /\ [](workflow # None =>
          (workflow.status # "draft" => Len(workflow.steps) >= 1))
  /\ [][workflow # None =>
          /\ workflow.status # "draft" => stepList(workflow') = stepList(workflow)
          /\ succeeded(workflowCall', "addStep") =>
               /\ workflow.status = "draft"
               /\ Len(workflow'.steps) = Len(workflow.steps) + 1
          /\ succeeded(workflowCall', "activate") =>
               /\ workflow.status = "draft"
               /\ Len(workflow.steps) >= 1
               /\ workflow'.status = "active"
          /\ (rejected(workflowCall', "addStep") \/ rejected(workflowCall', "activate")) =>
               /\ workflow'.status = workflow.status
               /\ workflow'.steps = workflow.steps
               /\ workflow'.version = workflow.version]_vars

\* An active workflow with two steps on which addStep has just been rejected.
C24_Witness_AddStepRejectedWhenActive ==
  /\ workflow # None
  /\ workflow.status = "active"
  /\ Len(workflow.steps) = 2
  /\ rejected(workflowCall, "addStep")
  /\ workflow.version = 3

\* C25: the status is COMPLETED only if every step is completed; the completed set
\* is the set of the ids of the completed steps; a successful completeStep adds
\* exactly one WorkflowStepCompleted event, increases the version by exactly 1, and
\* sets the status to COMPLETED when it leaves every step completed.
C25_CompletedWhenEveryStepIs ==
  /\ [](workflow # None =>
          /\ workflow.status = "completed" =>
               \A i \in 1..Len(workflow.steps) : workflow.steps[i].status = "completed"
          /\ workflow.completedSteps =
               {workflow.steps[i].id : i \in {j \in 1..Len(workflow.steps) :
                                                workflow.steps[j].status = "completed"}})
  /\ [][succeeded(workflowCall', "completeStep") =>
          /\ workflow'.domainEvents =
               Append(workflow.domainEvents, [eventType |-> "WorkflowStepCompleted",
                                              stepId |-> workflowCall'.stepId])
          /\ workflow'.version = workflow.version + 1
          /\ (\A i \in 1..Len(workflow'.steps) : workflow'.steps[i].status = "completed") =>
               workflow'.status = "completed"]_vars

\* An active workflow of two steps with different ids, one completed and the other
\* in progress: the completion of the first did not complete the workflow.
C25_Witness_OneOfTwoCompleted ==
  /\ workflow # None
  /\ workflow.status = "active"
  /\ Len(workflow.steps) = 2
  /\ workflow.steps[1].status = "completed"
  /\ workflow.steps[2].status = "in-progress"
  /\ Len(workflow.domainEvents) = 2
  /\ succeeded(workflowCall, "startStep")

\* C28: startStep and completeStep take effect only on an active workflow: a draft
\* has all its steps pending, and the status becomes COMPLETED only from ACTIVE.
C28_StepsRunOnlyWhileActive ==
  /\ [](workflow # None =>
          (workflow.status = "draft" =>
             \A i \in 1..Len(workflow.steps) : workflow.steps[i].status = "pending"))
  /\ [][workflow # None =>
          /\ (workflow'.status = "completed" /\ workflow.status # "completed") =>
               workflow.status = "active"
          /\ (succeeded(workflowCall', "startStep") \/ succeeded(workflowCall', "completeStep")) =>
               workflow.status = "active"]_vars

(***************************************************************************)
(* The fan-out with translations that may fail: performTranslation, which  *)
(* LanguageManager.translate awaits, resolves or rejects.                  *)
(***************************************************************************)
MaxTranslations == 2

\* The requests whose translations may fail: up to MaxTranslations languages.
FailingLanguageLists ==
  UNION {[1..n -> RequestLanguages] : n \in 0..MaxTranslations}

\* performTranslation of translation k has rejected: LanguageManager.translate
\* rejects before its cache write, and so do PolyglotAgent.translate and the
\* callback of the translation. failures keeps the order of the rejections.
TranslateFails(k) ==
  /\ translationRuns(gmr.pc)
  /\ tasks[k].pc = "performing"
  /\ tasks' = [tasks EXCEPT ![k].pc = "failed"]
  /\ gmr' = [gmr EXCEPT !.failures = Append(@, k)]
  /\ UNCHANGED <<pluralCall, intentCall, inputLanguage, inputText>>
  /\ UNCHANGED domainVars
  /\ UNCHANGED pipelineVars
  /\ UNCHANGED callVars
  /\ UNCHANGED cultureVars
  /\ UNCHANGED managerVars

\* Promise.all rejects with the first rejection among its promises.
firstRejection(failures) == failures[1]

\* Promise.all has rejected: the await throws and the call rejects with the error
\* of the translation that failed first.
Reject ==
  /\ gmr.pc = "translating"
  /\ gmr.failures # <<>>
  /\ gmr' = [gmr EXCEPT !.pc = "rejected", !.error = [task |-> firstRejection(gmr.failures)]]
  /\ UNCHANGED tasks
  /\ UNCHANGED <<pluralCall, intentCall, inputLanguage, inputText>>
  /\ UNCHANGED domainVars
  /\ UNCHANGED pipelineVars
  /\ UNCHANGED callVars
  /\ UNCHANGED cultureVars
  /\ UNCHANGED managerVars

\* The next step of translation k, whatever it is.
TranslationStep(k) ==
  /\ k \in 1..Len(tasks)
  /\ \/ TranslateStart(k)
     \/ TranslateStore(k)
     \/ TranslateFails(k)
     \/ Adapt(k)
     \/ Assign(k)

InitFailing ==
  /\ InitState
  /\ inputLanguage = "en"
  /\ inputText = <<>>

NextFailing ==
  \/ \E languages \in FailingLanguageLists : Generate(languages)
  \/ ExecuteThrows
  \/ \E baseResponse \in BaseResponses : ExecuteReturns(baseResponse)
  \/ \E k \in 1..MaxTranslations : TranslationStep(k)
  \/ Resolve
  \/ Reject

SpecFailing == InitFailing /\ [][NextFailing]_vars

\* The translations that have not come to their end.
unfinished == {k \in 1..Len(tasks) : tasks[k].pc \notin {"done", "failed"}}

\* C29: when one of the translations fails, the call rejects with the error of the
\* translation that failed first and returns no map; the translations that were
\* started are not stopped by it: each one that has not come to its end can take
\* its next step, before the rejection as after it, and every one that has returned
\* from LanguageManager.translate has its result in the translation cache.
C29_FailFastWithoutCancelling ==
  /\ gmr.pc = "resolved" => gmr.failures = <<>>
  /\ gmr.pc = "translating" =>
       /\ gmr.failures # <<>> => (ENABLED Reject /\ ~ENABLED Resolve)
       /\ gmr.failures = <<>> => ~ENABLED Reject
  /\ (gmr.pc = "rejected" /\ tasks # <<>>) =>
       /\ gmr.failures # <<>>
       /\ gmr.error = [task |-> gmr.failures[1]]
       /\ tasks[gmr.failures[1]].pc = "failed"
  /\ \A k \in unfinished : ENABLED TranslationStep(k)
  /\ \A k \in returnedTranslations :
       /\ gmr.baseResponse \in DOMAIN translationCache
       /\ tasks[k].language \in DOMAIN translationCache[gmr.baseResponse]
       /\ translationCache[gmr.baseResponse][tasks[k].language] = tasks[k].translated

\* The call has rejected with the failure of its second translation; the first
\* translation is done, its result is in the cache and in the map, which is not
\* returned.
C29_Witness_RejectedOthersDone ==
  /\ gmr.pc = "rejected"
  /\ Len(tasks) = 2
  /\ gmr.failures = <<2>>
  /\ gmr.error = [task |-> 2]
  /\ tasks[1].pc = "done"
  /\ tasks[1].language \in DOMAIN translationCache[gmr.baseResponse]
  /\ tasks[2].language \notin DOMAIN translationCache[gmr.baseResponse]
  /\ Len(gmr.responses) = 2

\* C30: the map returned holds the base response under the primary language, also
\* when the primary language was not requested; its keys are the requested languages
\* and the primary language; and it has one entry for each of them, however often
\* the request lists a language.
C30_PrimaryLanguageAlwaysPresent ==
  gmr.pc = "resolved" =>
    /\ primaryLanguage \in keysOf(gmr.responses)
    /\ \A i \in 1..Len(gmr.responses) :
         gmr.responses[i].key = primaryLanguage => gmr.responses[i].value = gmr.baseResponse
    /\ keysOf(gmr.responses) = languagesOf(gmr.languages) \cup {primaryLanguage}
    /\ Len(gmr.responses) = Cardinality(languagesOf(gmr.languages) \cup {primaryLanguage})

\* A call for [RU, RU, EN] on a Thai agent has resolved with the three keys TH, RU
\* and EN.
C30_Witness_PrimaryNotRequested ==
  /\ gmr.pc = "resolved"
  /\ primaryLanguage = "th"
  /\ gmr.languages = <<"ru", "ru", "en">>
  /\ Len(gmr.responses) = 3
  /\ gmr.responses[1].key = "th"

=============================================================================
